---- MODULE Spec2Model ----
(***************************************************************************)
(* Validator tool orchestration of the Terraform run-task analyzer:        *)
(*   - ToolRegistry            (tools/registry.py)                         *)
(*   - retry_with_backoff      (utils/error_handling.py)                   *)
(*   - execute_tools_with_degradation (utils/error_handling.py)            *)
(*   - OutputFormatter         (formatters/output_formatter.py)            *)
(*   - process_run_task        (handler.py) around eval (ai_simple.py)     *)
(* Each component has its own specification over its own variables; the    *)
(* variables of the other components stay at their initial values.         *)
(***************************************************************************)
EXTENDS Integers, Sequences, FiniteSets, TLC

(***************************************************************************)
(* Bounds of the model                                                     *)
(***************************************************************************)
\* number of registry calls made in one run, over all threads
MaxOps == 3
\* largest max_retries handed to retry_with_backoff
MaxRetriesArg == 4
\* longest list of tools handed to execute_tools_with_degradation
MaxTools == 3
\* longest findings list handed to OutputFormatter.format
MaxFindings == 2
\* length of a short title, resource address, description or remediation
ShortText == 20
\* number of ToolRegistry() calls made in one run, over all threads
MaxCalls == 4
\* number of ToolRegistry.reset() calls made in one run
MaxResets == 1
\* number of MetricsEmitter calls made in one run
MaxEmits == 2

(***************************************************************************)
(* Program constants                                                       *)
(***************************************************************************)
\* retry_with_backoff: max_retries, initial_delay, backoff_factor defaults
DefaultMaxRetries == 3
InitialDelay == 1
BackoffFactor == 2

(***************************************************************************)
(* ToolRegistry                                                            *)
(***************************************************************************)
VARIABLES
    tools,      \* self._tools: the insertion-ordered dict, as the sequence of its values
    locked,     \* self._registry_lock is held
    pc,         \* per thread: position inside register / get_tool / list_tools / to_bedrock_spec
    arg,        \* per thread: the argument of the running call (a candidate, or a name in .name)
    ret,        \* per thread: outcome of the last finished call
    idx,        \* per thread: position of to_bedrock_spec's iteration over _tools.values()
    acc,        \* per thread: the list to_bedrock_spec has built so far
    ops,        \* number of calls started so far, over all threads
    okRegs      \* history: candidates whose register call returned normally, in return order

regVars == <<tools, locked, pc, arg, ret, idx, acc, ops, okRegs>>

VARIABLES
    max_retries,    \* retry_with_backoff: the max_retries argument
    attempt,        \* retry_with_backoff: the loop variable of range(max_retries)
    last_exception, \* retry_with_backoff: the local of line 94 (NoError is None)
    rpc,            \* retry_with_backoff: position
    rout,           \* retry_with_backoff: how the call ended, and with what
    slept,          \* the delays handed to time.sleep, in order
    fhist           \* history: what each invocation of func did, in order

retryVars == <<max_retries, attempt, last_exception, rpc, rout, slept, fhist>>

VARIABLES
    dtools,     \* execute_tools_with_degradation: the tools argument
    di,         \* position of the for loop in tools (1-based)
    dresults,   \* the results list
    dpc,        \* position
    dexc,       \* the exception that left execute_tools_with_degradation (NoError: none)
    dhist       \* history: what execute_func did for each tool, in order

degrVars == <<dtools, di, dresults, dpc, dexc, dhist>>

VARIABLES
    findings,       \* OutputFormatter.format: the findings argument
    cost_analysis,  \* OutputFormatter.format: the cost_analysis argument
    output,         \* the returned string, as the sequence of its parts
    fpc             \* position

fmtVars == <<findings, cost_analysis, output, fpc>>

VARIABLES
    rtype,            \* process_run_task: the type argument
    ppc,              \* position in process_run_task
    results,          \* its local results, as the outcome-ids of the elements
    status,           \* its local status
    message,          \* its local message
    partial_results,  \* its local partial_results
    caught,           \* the exception an except clause of process_run_task caught
    pexc,             \* the exception that left process_run_task (NoError: none)
    logged,           \* what the closing log_run_task call was given
    epc,              \* position in ai.eval
    sections,         \* eval: the sections extracted so far (plan_summary, ...)
    alarm,            \* the SIGALRM set up by setup_timeout_handler
    lost              \* history: the sections eval held when the timeout unwound it

runVars == <<rtype, ppc, results, status, message, partial_results, caught, pexc,
             logged, epc, sections, alarm, lost>>

VARIABLES
    _instance,  \* ToolRegistry._instance: 0 is None, n > 0 the n-th object created
    _lock,      \* ToolRegistry._lock: "free" or the thread holding it
    objects,    \* the ToolRegistry objects created so far, with their _initialized
    npc,        \* per thread: position inside ToolRegistry() (__new__, then __init__)
    nself,      \* per thread: what __new__ returned
    nepoch,     \* per thread: number of resets done when the running call began
    nout,       \* per thread: outcome of the last finished ToolRegistry() call
    ncalls,     \* number of ToolRegistry() calls started so far
    nresets,    \* number of reset() calls done so far
    completed   \* history: the outcomes of the finished ToolRegistry() calls

newVars == <<_instance, _lock, objects, npc, nself, nepoch, nout, ncalls, nresets,
             completed>>

VARIABLES
    cloudwatch, \* MetricsEmitter.cloudwatch: TRUE a client, FALSE None
    mpc,        \* position inside emit_duration / emit_count / emit_tool_execution
    mtodo,      \* the emit_count / emit_duration calls the running call still makes
    put_log,    \* the put_metric_data calls that the sink accepted, in order
    mhist,      \* history: what each put_metric_data call did, in order
    mesc,       \* the exception that left a MetricsEmitter method (NoError: none)
    emitted,    \* history: the emit_tool_execution calls made, in order
    mstarted,   \* number of MetricsEmitter calls started
    mreturned   \* number of MetricsEmitter calls that returned to their caller

metricVars == <<cloudwatch, mpc, mtodo, put_log, mhist, mesc, emitted, mstarted, mreturned>>

VARIABLES
    validator,   \* the tool whose execute is called
    input_data,  \* the input_data argument, and what the tool's collaborators answer
    tpc,         \* position of the execute call
    tool_output  \* the ToolOutput that execute returned

toolVars == <<validator, input_data, tpc, tool_output>>

vars == <<regVars, retryVars, degrVars, fmtVars, runVars, newVars, metricVars, toolVars>>

\* what the steps of one component leave alone
nonRegVars == <<retryVars, degrVars, fmtVars, runVars, newVars, metricVars, toolVars>>
nonRetryVars == <<regVars, degrVars, fmtVars, runVars, newVars, metricVars, toolVars>>
nonDegrVars == <<regVars, retryVars, fmtVars, runVars, newVars, metricVars, toolVars>>
nonFmtVars == <<regVars, retryVars, degrVars, runVars, newVars, metricVars, toolVars>>
nonRunVars == <<regVars, degrVars, fmtVars, newVars, metricVars, toolVars>>
nonNewVars == <<regVars, retryVars, degrVars, fmtVars, runVars, metricVars, toolVars>>
nonMetricVars == <<regVars, retryVars, degrVars, fmtVars, runVars, newVars, toolVars>>
nonToolVars == <<regVars, retryVars, degrVars, fmtVars, runVars, newVars, metricVars>>

Threads == {"t1", "t2", "t3"}

\* What register can be handed.  base: isinstance(tool, BaseTool); desc / schema:
\* what the property accessor does ("ok", or the exception it raises); shape: the
\* value input_schema returns ("object": type object with a properties map,
\* "empty": {} as in the tests' IncompleteTool).
Cand(id, base, name, desc, schema, shape) ==
    [id |-> id, base |-> base, name |-> name, desc |-> desc, schema |-> schema, shape |-> shape]

MockA1      == Cand("A1", TRUE, "a", "ok", "ok", "object")
MockA2      == Cand("A2", TRUE, "a", "ok", "ok", "object")
MockB       == Cand("B", TRUE, "b", "ok", "ok", "object")
EmptyName   == Cand("E", TRUE, "", "ok", "ok", "object")
EmptySchema == Cand("S", TRUE, "s", "ok", "ok", "empty")
Incomplete  == Cand("I", TRUE, "i", "NotImplementedError", "ok", "empty")
NoSchema    == Cand("N", TRUE, "n", "ok", "AttributeError", "object")
Broken      == Cand("R", TRUE, "r", "RuntimeError", "ok", "object")
NotATool    == Cand("X", FALSE, "x", "ok", "ok", "object")

Candidates ==
    {MockA1, MockA2, MockB, EmptyName, EmptySchema, Incomplete, NoSchema, Broken, NotATool}

Names == {c.name : c \in Candidates}

NoArg == Cand("-", FALSE, "-", "ok", "ok", "object")

NoRet == [status |-> "none", tool |-> <<>>, names |-> <<>>, specs |-> <<>>]
Raised(e) == [NoRet EXCEPT !.status = e]
Returned == [NoRet EXCEPT !.status = "ok"]

Errors == {"TypeError", "ValueError:already registered", "ValueError:missing required properties",
           "RuntimeError"}

\* tool_name in self._tools
HasNameNever(ts, n) == FALSE
HasName(ts, n) == \E i \in 1..Len(ts) : ts[i].name = n

\* self._tools[tool_name] = tool  (a dict keeps the position of a key it already has)
StoreToolReplace(ts, c) == <<c>>
StoreTool(ts, c) ==
    IF \E i \in 1..Len(ts) : ts[i].name = c.name
    THEN [i \in 1..Len(ts) |-> IF ts[i].name = c.name THEN c ELSE ts[i]]
    ELSE Append(ts, c)

\* self._tools.get(tool_name): <<>> is None
Lookup(ts, n) ==
    IF HasName(ts, n) THEN <<ts[CHOOSE i \in 1..Len(ts) : ts[i].name = n]>> ELSE <<>>

\* list(self._tools.keys())
ListToolsReversed(ts) == [i \in 1..Len(ts) |-> ts[Len(ts) + 1 - i].name]
ListTools(ts) == [i \in 1..Len(ts) |-> ts[i].name]

\* BaseTool.get_bedrock_spec
BedrockSpec(c) == [name |-> c.name, description |-> c.desc, inputSchema |-> c.shape]

\* threading.Lock: acquire blocks while the lock is held
CanAcquireAlways(l) == TRUE
CanAcquire(l) == ~l

\* leaving the `with self._registry_lock:` block, normally or by an exception,
\* releases the lock
Released(l) == FALSE

\* the same with block left by an exception: __exit__ runs while the exception
\* unwinds
ReleasedOnRaiseKeepsLock(l) == l
ReleasedOnRaise(l) == FALSE

\* what the except clause of register catches: (AttributeError, NotImplementedError)
Caught(e) == e \in {"AttributeError", "NotImplementedError"}

InitRegistry ==
    /\ tools = <<>>
    /\ locked = FALSE
    /\ pc = [t \in Threads |-> "idle"]
    /\ arg = [t \in Threads |-> NoArg]
    /\ ret = [t \in Threads |-> NoRet]
    /\ idx = [t \in Threads |-> 0]
    /\ acc = [t \in Threads |-> <<>>]
    /\ ops = 0
    /\ okRegs = <<>>

Finish(t, r) ==
    /\ ret' = [ret EXCEPT ![t] = r]
    /\ pc' = [pc EXCEPT ![t] = "idle"]

Goto(t, to) == pc' = [pc EXCEPT ![t] = to]

\* a thread that is in no call starts one
Start(t, c) ==
    /\ pc[t] = "idle"
    /\ ops < MaxOps
    /\ ops' = ops + 1
    /\ arg' = [arg EXCEPT ![t] = c]

\* register, lines 77-80: the isinstance check and the read of tool.name
RegisterCall(t) ==
    \E c \in Candidates :
        /\ Start(t, c)
        /\ IF c.base
           THEN /\ ret' = [ret EXCEPT ![t] = NoRet]
                /\ Goto(t, "reg_acquire")
           ELSE Finish(t, Raised("TypeError"))
        /\ UNCHANGED <<tools, locked, idx, acc, okRegs>>
        /\ UNCHANGED nonRegVars

\* register, line 82: with self._registry_lock
RegAcquire(t) ==
    /\ pc[t] = "reg_acquire"
    /\ CanAcquire(locked)
    /\ locked' = TRUE
    /\ Goto(t, "reg_dup")
    /\ UNCHANGED <<tools, arg, ret, idx, acc, ops, okRegs>>
    /\ UNCHANGED nonRegVars

\* register, lines 83-84: the duplicate-name check
RegDupCheck(t) ==
    /\ pc[t] = "reg_dup"
    /\ IF HasName(tools, arg[t].name)
       THEN /\ Finish(t, Raised("ValueError:already registered"))
            /\ locked' = ReleasedOnRaise(locked)
       ELSE /\ Goto(t, "reg_desc")
            /\ UNCHANGED <<ret, locked>>
    /\ UNCHANGED <<tools, arg, idx, acc, ops, okRegs>>
    /\ UNCHANGED nonRegVars

\* an accessor of lines 88-89 raises e: lines 90-91 turn the two caught kinds into
\* ValueError, any other exception leaves register as it is
AccessorRaises(t, e) ==
    /\ Finish(t, Raised(IF Caught(e) THEN "ValueError:missing required properties" ELSE e))
    /\ locked' = ReleasedOnRaise(locked)

\* register, line 88: _ = tool.description
RegDescription(t) ==
    /\ pc[t] = "reg_desc"
    /\ IF arg[t].desc # "ok"
       THEN AccessorRaises(t, arg[t].desc)
       ELSE /\ Goto(t, "reg_schema")
            /\ UNCHANGED <<ret, locked>>
    /\ UNCHANGED <<tools, arg, idx, acc, ops, okRegs>>
    /\ UNCHANGED nonRegVars

\* register, line 89: _ = tool.input_schema
RegSchema(t) ==
    /\ pc[t] = "reg_schema"
    /\ IF arg[t].schema # "ok"
       THEN AccessorRaises(t, arg[t].schema)
       ELSE /\ Goto(t, "reg_store")
            /\ UNCHANGED <<ret, locked>>
    /\ UNCHANGED <<tools, arg, idx, acc, ops, okRegs>>
    /\ UNCHANGED nonRegVars

\* register, line 93: self._tools[tool_name] = tool
RegStore(t) ==
    /\ pc[t] = "reg_store"
    /\ tools' = StoreTool(tools, arg[t])
    /\ Goto(t, "reg_exit")
    /\ UNCHANGED <<locked, arg, ret, idx, acc, ops, okRegs>>
    /\ UNCHANGED nonRegVars

\* register: the end of the with block, and the return
RegExit(t) ==
    /\ pc[t] = "reg_exit"
    /\ locked' = Released(locked)
    /\ Finish(t, Returned)
    /\ okRegs' = Append(okRegs, arg[t])
    /\ UNCHANGED <<tools, arg, idx, acc, ops>>
    /\ UNCHANGED nonRegVars

\* get_tool(tool_name), line 105: with self._registry_lock
GetToolCall(t) ==
    \E n \in Names :
        /\ Start(t, [NoArg EXCEPT !.name = n])
        /\ CanAcquire(locked)
        /\ locked' = TRUE
        /\ ret' = [ret EXCEPT ![t] = NoRet]
        /\ Goto(t, "get_read")
        /\ UNCHANGED <<tools, idx, acc, okRegs>>
        /\ UNCHANGED nonRegVars

\* get_tool, line 106: return self._tools.get(tool_name)
GetRead(t) ==
    /\ pc[t] = "get_read"
    /\ Finish(t, [Returned EXCEPT !.tool = Lookup(tools, arg[t].name)])
    /\ locked' = Released(locked)
    /\ UNCHANGED <<tools, arg, idx, acc, ops, okRegs>>
    /\ UNCHANGED nonRegVars

\* list_tools(), line 115: with self._registry_lock
ListCall(t) ==
    /\ Start(t, NoArg)
    /\ CanAcquire(locked)
    /\ locked' = TRUE
    /\ ret' = [ret EXCEPT ![t] = NoRet]
    /\ Goto(t, "list_read")
    /\ UNCHANGED <<tools, idx, acc, okRegs>>
    /\ UNCHANGED nonRegVars

\* list_tools, line 116: return list(self._tools.keys())
ListRead(t) ==
    /\ pc[t] = "list_read"
    /\ Finish(t, [Returned EXCEPT !.names = ListTools(tools)])
    /\ locked' = Released(locked)
    /\ UNCHANGED <<tools, arg, idx, acc, ops, okRegs>>
    /\ UNCHANGED nonRegVars

\* to_bedrock_spec(), line 138: with self._registry_lock
SpecCall(t) ==
    /\ Start(t, NoArg)
    /\ CanAcquire(locked)
    /\ locked' = TRUE
    /\ ret' = [ret EXCEPT ![t] = NoRet]
    /\ idx' = [idx EXCEPT ![t] = 1]
    /\ acc' = [acc EXCEPT ![t] = <<>>]
    /\ Goto(t, "spec_iter")
    /\ UNCHANGED <<tools, okRegs>>
    /\ UNCHANGED nonRegVars

\* to_bedrock_spec, line 139: the comprehension calls get_bedrock_spec on one value
\* of the dict after the other
SpecIter(t) ==
    /\ pc[t] = "spec_iter"
    /\ idx[t] <= Len(tools)
    /\ acc' = [acc EXCEPT ![t] = Append(@, BedrockSpec(tools[idx[t]]))]
    /\ idx' = [idx EXCEPT ![t] = @ + 1]
    /\ UNCHANGED <<tools, locked, pc, arg, ret, ops, okRegs>>
    /\ UNCHANGED nonRegVars

\* to_bedrock_spec, line 139: the list is complete and returned
SpecReturn(t) ==
    /\ pc[t] = "spec_iter"
    /\ idx[t] > Len(tools)
    /\ Finish(t, [Returned EXCEPT !.specs = acc[t]])
    /\ locked' = Released(locked)
    /\ idx' = [idx EXCEPT ![t] = 0]
    /\ acc' = [acc EXCEPT ![t] = <<>>]
    /\ UNCHANGED <<tools, arg, ops, okRegs>>
    /\ UNCHANGED nonRegVars

NextRegistry ==
    \E t \in Threads :
        \/ RegisterCall(t)
        \/ RegAcquire(t)
        \/ RegDupCheck(t)
        \/ RegDescription(t)
        \/ RegSchema(t)
        \/ RegStore(t)
        \/ RegExit(t)
        \/ GetToolCall(t)
        \/ GetRead(t)
        \/ ListCall(t)
        \/ ListRead(t)
        \/ SpecCall(t)
        \/ SpecIter(t)
        \/ SpecReturn(t)

(***************************************************************************)
(* Exceptions and is_retryable_error                                       *)
(***************************************************************************)
\* An exception: its class, the error code of a botocore ClientError ("" for
\* the other classes), str(error) as the sequence of its characters, and the
\* number of the func invocation that raised it (0: raised elsewhere).
Exc(cls, code, msg) == [cls |-> cls, code |-> code, msg |-> msg, at |-> 0]

NoError == Exc("None", "", <<>>)

\* "Rate exceeded"
Throttled ==
    Exc("ClientError", "ThrottlingException",
        <<"R", "a", "t", "e", " ", "e", "x", "c", "e", "e", "d", "e", "d">>)
\* "not authorized"
AccessDenied ==
    Exc("ClientError", "AccessDeniedException",
        <<"n", "o", "t", " ", "a", "u", "t", "h", "o", "r", "i", "z", "e", "d">>)
\* "Connection reset"
ConnectionReset ==
    Exc("ConnectionError", "",
        <<"C", "o", "n", "n", "e", "c", "t", "i", "o", "n", " ", "r", "e", "s", "e", "t">>)
\* "bad plan"
BadPlan == Exc("ValueError", "", <<"b", "a", "d", " ", "p", "l", "a", "n">>)

\* "network_id: field required": a pydantic ValidationError for a malformed
\* tool input whose field name holds one of the retryable patterns
BadField ==
    Exc("ValidationError", "",
        <<"n", "e", "t", "w", "o", "r", "k", "_", "i", "d", ":", " ",
          "f", "i", "e", "l", "d", " ", "r", "e", "q", "u", "i", "r", "e", "d">>)

\* the classes of the errors raised for a malformed input
ValidationClasses == {"ValueError", "ValidationError"}

\* what func can raise
FuncErrors == {Throttled, AccessDenied, ConnectionReset, BadPlan, BadField}

\* func returned a value
FuncOk == Exc("ok", "", <<>>)

\* str.lower() on one character
UpperLetters == <<"A", "B", "C", "D", "E", "F", "G", "H", "I", "J", "K", "L", "M",
                  "N", "O", "P", "Q", "R", "S", "T", "U", "V", "W", "X", "Y", "Z">>
LowerLetters == <<"a", "b", "c", "d", "e", "f", "g", "h", "i", "j", "k", "l", "m",
                  "n", "o", "p", "q", "r", "s", "t", "u", "v", "w", "x", "y", "z">>
LowerChar(c) ==
    IF \E i \in 1..26 : UpperLetters[i] = c
    THEN LowerLetters[CHOOSE i \in 1..26 : UpperLetters[i] = c]
    ELSE c

\* str.lower()
Lower(s) == [i \in 1..Len(s) |-> LowerChar(s[i])]

\* pattern in text
Contains(text, pattern) ==
    \E i \in 0..(Len(text) - Len(pattern)) : SubSeq(text, i + 1, i + Len(pattern)) = pattern

\* is_retryable_error, lines 36-45
retryable_codes ==
    {"ThrottlingException", "Throttling", "TooManyRequestsException",
     "ProvisionedThroughputExceededException", "RequestLimitExceeded",
     "ServiceUnavailable", "InternalError", "RequestTimeout"}

\* is_retryable_error, lines 51-57
retryable_patterns ==
    { <<"t", "i", "m", "e", "o", "u", "t">>,
      <<"t", "i", "m", "e", "d", " ", "o", "u", "t">>,
      <<"c", "o", "n", "n", "e", "c", "t", "i", "o", "n">>,
      <<"n", "e", "t", "w", "o", "r", "k">>,
      <<"t", "e", "m", "p", "o", "r", "a", "r", "i", "l", "y", " ",
        "u", "n", "a", "v", "a", "i", "l", "a", "b", "l", "e">> }

is_retryable_error(e) ==
    \/ e.cls = "ClientError" /\ e.code \in retryable_codes
    \/ \E p \in retryable_patterns : Contains(Lower(e.msg), p)

(***************************************************************************)
(* retry_with_backoff                                                      *)
(***************************************************************************)
NoOutcome == [kind |-> "none", err |-> NoError]
ReturnedValue == [kind |-> "returned", err |-> NoError]
RaisedError(e) == [kind |-> "raised", err |-> e]

\* line 123
UnexpectedState ==
    Exc("RuntimeError", "",
        <<"U", "n", "e", "x", "p", "e", "c", "t", "e", "d", " ", "s", "t", "a", "t", "e">>)

\* line 103: if not retryable_check(e): raise
PropagatesNowInverted(e) == is_retryable_error(e)
PropagatesNow(e) == ~is_retryable_error(e)

\* line 108: if attempt == max_retries - 1: raise
IsLastAttemptEarly(a, m) == a = m - 2
IsLastAttempt(a, m) == a = m - 1

\* line 113: delay = initial_delay * (backoff_factor ** attempt)
RECURSIVE Pow(_, _)
Pow(b, n) == IF n <= 0 THEN 1 ELSE b * Pow(b, n - 1)
DelayConstant(a) == InitialDelay
Delay(a) == InitialDelay * Pow(BackoffFactor, a)

\* the state at the call of retry_with_backoff(func, max_retries=m), lines 91-94
\* the values of the max_retries argument: negative, zero, positive
RetriesArgs == {-1} \cup 0..MaxRetriesArg

RetryEntry(m) ==
    /\ max_retries = m
    /\ attempt = 0
    /\ last_exception = NoError
    /\ rpc = "loop"
    /\ rout = NoOutcome
    /\ slept = <<>>
    /\ fhist = <<>>

RetryIdle ==
    /\ max_retries = DefaultMaxRetries
    /\ attempt = 0
    /\ last_exception = NoError
    /\ rpc = "idle"
    /\ rout = NoOutcome
    /\ slept = <<>>
    /\ fhist = <<>>

\* line 96: for attempt in range(max_retries)
RetryLoop ==
    /\ rpc = "loop"
    /\ rpc' = IF attempt < max_retries THEN "call" ELSE "after_loop"
    /\ UNCHANGED <<max_retries, attempt, last_exception, rout, slept, fhist>>
    /\ UNCHANGED nonRetryVars

\* lines 97-98: return func()
RetryCallReturns ==
    /\ rpc = "call"
    /\ fhist' = Append(fhist, FuncOk)
    /\ rout' = ReturnedValue
    /\ rpc' = "done"
    /\ UNCHANGED <<max_retries, attempt, last_exception, slept>>
    /\ UNCHANGED nonRetryVars

\* lines 97-100: func() raises, last_exception = e
RetryCallRaises ==
    /\ rpc = "call"
    /\ \E e \in FuncErrors :
        LET raised == [e EXCEPT !.at = Len(fhist) + 1]
        IN  /\ fhist' = Append(fhist, raised)
            /\ last_exception' = raised
    /\ rpc' = "except"
    /\ UNCHANGED <<max_retries, attempt, rout, slept>>
    /\ UNCHANGED nonRetryVars

\* lines 103-110: the two raise statements of the except block
RetryRaise ==
    /\ rpc = "except"
    /\ PropagatesNow(last_exception) \/ IsLastAttempt(attempt, max_retries)
    /\ rout' = RaisedError(last_exception)
    /\ rpc' = "done"
    /\ UNCHANGED <<max_retries, attempt, last_exception, slept, fhist>>
    /\ UNCHANGED nonRetryVars

\* lines 113-118: time.sleep(delay), and the next round of the loop
RetrySleep ==
    /\ rpc = "except"
    /\ ~PropagatesNow(last_exception)
    /\ ~IsLastAttempt(attempt, max_retries)
    /\ slept' = Append(slept, Delay(attempt))
    /\ attempt' = attempt + 1
    /\ rpc' = "loop"
    /\ UNCHANGED <<max_retries, last_exception, rout, fhist>>
    /\ UNCHANGED nonRetryVars

\* lines 121-123: after the loop
RetryAfterLoop ==
    /\ rpc = "after_loop"
    /\ rout' = RaisedError(IF last_exception # NoError THEN last_exception ELSE UnexpectedState)
    /\ rpc' = "done"
    /\ UNCHANGED <<max_retries, attempt, last_exception, slept, fhist>>
    /\ UNCHANGED nonRetryVars

NextRetry ==
    \/ RetryLoop
    \/ RetryCallReturns
    \/ RetryCallRaises
    \/ RetryRaise
    \/ RetrySleep
    \/ RetryAfterLoop

(***************************************************************************)
(* execute_tools_with_degradation                                          *)
(***************************************************************************)
\* An element of tools: with a name attribute, or without one (then line 153
\* falls back to str(tool)).
DTool(name, hasName, repr) == [name |-> name, hasName |-> hasName, repr |-> repr]

Ec2Tool == DTool("EC2Validator", TRUE, "<EC2ValidatorTool>")
S3Tool == DTool("S3Validator", TRUE, "<S3ValidatorTool>")
Nameless == DTool("", FALSE, "<object>")

DTools == {Ec2Tool, S3Tool, Nameless}

\* line 153: getattr(tool, 'name', str(tool))
ToolName(tool) == IF tool.hasName THEN tool.name ELSE tool.repr

\* "interrupted": a BaseException that is no Exception
Interrupt ==
    Exc("KeyboardInterrupt", "",
        <<"i", "n", "t", "e", "r", "r", "u", "p", "t", "e", "d">>)

\* what execute_func can raise
ExecErrors == {Throttled, BadPlan, Interrupt}

\* the classes below Exception
ExceptionClasses == {"ClientError", "ConnectionError", "ValueError", "ValidationError",
                     "RuntimeError", "TimeoutException"}

\* line 161: except Exception as e
DegradeCatchesClientErrorOnly(e) == e.cls = "ClientError"
DegradeCatches(e) == e.cls \in ExceptionClasses

\* an element of results; src is the position of the tool it belongs to
DResult(src, name, success, error, error_type, fs) ==
    [src |-> src, tool_name |-> name, success |-> success, error |-> error,
     error_type |-> error_type, findings |-> fs]

\* what execute_func can return: a ToolOutput, successful (with or without
\* findings) or reporting its own failure
ExecReturns(i) ==
    { DResult(i, "", TRUE, <<>>, "", <<>>),
      DResult(i, "", TRUE, <<>>, "", <<"finding">>),
      DResult(i, "", FALSE, BadPlan.msg, "", <<>>) }

\* lines 170-176: the error result
ErrorResult(i, name, e) == DResult(i, name, FALSE, e.msg, e.cls, <<>>)

DegradeEntry(ts) ==
    /\ dtools = ts
    /\ di = 1
    /\ dresults = <<>>
    /\ dpc = "loop"
    /\ dexc = NoError
    /\ dhist = <<>>

DegradeIdle ==
    /\ dtools = <<>>
    /\ di = 1
    /\ dresults = <<>>
    /\ dpc = "idle"
    /\ dexc = NoError
    /\ dhist = <<>>

\* lines 152-153: for tool in tools
DegradeLoop ==
    /\ dpc = "loop"
    /\ dpc' = IF di <= Len(dtools) THEN "exec" ELSE "summary"
    /\ UNCHANGED <<dtools, di, dresults, dexc, dhist>>
    /\ UNCHANGED nonDegrVars

\* lines 155-159: execute_func(tool) returns, results.append(result)
DegradeExecReturns ==
    /\ dpc = "exec"
    /\ \E r \in ExecReturns(di) :
        /\ dresults' = Append(dresults, r)
        /\ dhist' = Append(dhist, FuncOk)
    /\ di' = di + 1
    /\ dpc' = "loop"
    /\ UNCHANGED <<dtools, dexc>>
    /\ UNCHANGED nonDegrVars

\* lines 155-177: execute_func(tool) raises
DegradeExecRaises ==
    /\ dpc = "exec"
    /\ \E e \in ExecErrors :
        /\ dhist' = Append(dhist, e)
        /\ IF DegradeCatches(e)
           THEN /\ dresults' = Append(dresults, ErrorResult(di, ToolName(dtools[di]), e))
                /\ di' = di + 1
                /\ dpc' = "loop"
                /\ dexc' = dexc
           ELSE /\ dexc' = e
                /\ dpc' = "raised"
                /\ UNCHANGED <<dresults, di>>
    /\ UNCHANGED dtools
    /\ UNCHANGED nonDegrVars

\* lines 179-184: the summary log line, return results
DegradeReturn ==
    /\ dpc = "summary"
    /\ dpc' = "done"
    /\ UNCHANGED <<dtools, di, dresults, dexc, dhist>>
    /\ UNCHANGED nonDegrVars

NextDegrade ==
    \/ DegradeLoop
    \/ DegradeExecReturns
    \/ DegradeExecRaises
    \/ DegradeReturn

\* the sequences over S of length at most n
SeqsUpTo(S, n) == UNION {[1..k -> S] : k \in 0..n}

(***************************************************************************)
(* OutputFormatter                                                         *)
(*                                                                         *)
(* A string is modelled by the sequence of the pieces it is built from,   *)
(* each with its length in characters (len() counts code points: every    *)
(* emoji of the literals is one, "⚠️" and "⚙️" are two).                    *)
(***************************************************************************)
MAX_SECTION_LENGTH == 9000
\* line 254: "Leave room for footer"
FooterMargin == 200

\* lengths of the string literals, and of the fixed text of the f-strings
HeaderLen == 22             \* "## 🔍 Analysis Summary\n"
AllClearHeadLen == 18       \* "\n### 🟢 All Clear\n\n"
AllClearTextLen == 74
SecurityHeadLen == 25       \* "\n### 🚨 Security Findings\n"
SevTitleFixed == 9          \* "\n{emoji} **{severity_label}**: {title}\n" without the fields
ResourceFixed == 19         \* "- **Resource**: `{resource_address}`\n"
IssueFixed == 14            \* "- **Issue**: {description}\n"
RemediationFixed == 20      \* "- **Remediation**: {remediation}\n"
CostHeadLen == 21           \* "\n### 💰 Cost Analysis\n"
CostFindingsHeadLen == 20   \* "\n**Cost Findings:**\n"
PlainTitleFixed == 3        \* "\n{emoji} {title}\n"
ImpactFixed == 15           \* "- **Impact**: {description}\n"
RecommendationFixed == 23   \* "- **Recommendation**: {remediation}\n"
TableHeadLen == 49
TableRuleLen == 47
TableRowFixed == 14         \* "| {} | {} | {} | {} |\n"
TotalRowFixed == 35         \* "| **Total** | **{}** | **{}** | **{}** |\n"
OpsHeadLen == 29            \* "\n### ⚙️ Operational Findings\n"
RecHeadLen == 27            \* "\n### 🟢 Key Recommendations\n"
PriorityActionsLen == 23    \* "\n**Priority Actions:**\n"
RecItemFixed == 3           \* "{i}. {remediation}\n"
NoActionLen == 88
TruncNoticeLen == 72
PriorityFindingsLen == 25   \* "\n### 🚨 Priority Findings\n"
FooterFixed == 59           \* "\n\n*{omitted} additional findings omitted due to length constraints*\n"
EmojiLen == 1               \* SEVERITY_EMOJIS: one code point each
ZeroCostLen == 5            \* "$0.00"
PerMonthFixed == 4          \* "${:.2f}/mo"
ChangeFixed == 4            \* "+${:.2f} 🔴", "-${:.2f} 🟢"
TotalChangeFixed == 2       \* "+${:.2f}", "-${:.2f}"
FractionLen == 3            \* ".2f": the point and two digits

Severities == {"CRITICAL", "HIGH", "MEDIUM", "LOW"}

_severity_order(sev) ==
    CASE sev = "CRITICAL" -> 0
      [] sev = "HIGH" -> 1
      [] sev = "MEDIUM" -> 2
      [] sev = "LOW" -> 3

\* len(severity.value.capitalize())
SeverityLabelLen(sev) ==
    CASE sev = "CRITICAL" -> 8
      [] sev = "HIGH" -> 4
      [] sev = "MEDIUM" -> 6
      [] sev = "LOW" -> 3

\* A Finding: its severity, the lengths of its texts, and the category
\* keywords that occur in f"{title} {description}".lower()
Finding(sev, kw, title, res, desc, rem) ==
    [severity |-> sev, keywords |-> kw, title |-> title,
     resource_address |-> res, description |-> desc, remediation |-> rem]

\* a piece of the output: what it is, the position in findings of the finding
\* it renders (0: none), the number it prints (0: none), its length
Part(kind, f, n, len) == [kind |-> kind, f |-> f, n |-> n, len |-> len]

RECURSIVE StrLen(_)
StrLen(parts) == IF parts = <<>> THEN 0 ELSE Head(parts).len + StrLen(Tail(parts))

\* len(str(n)) for n >= 0
RECURSIVE Digits(_)
Digits(n) == IF n < 10 THEN 1 ELSE 1 + Digits(n \div 10)

\* len(f"{c:.2f}") for an amount of c >= 0 cents
MoneyLen(c) == Digits(c \div 100) + FractionLen

\* the positions 1..n that satisfy Keep, in order
Positions(n, Keep(_)) ==
    LET F[i \in 0..n] ==
            IF i = 0 THEN <<>>
            ELSE IF Keep(i) THEN Append(F[i - 1], i) ELSE F[i - 1]
    IN F[n]

\* lines 93-109
_filter_by_category(fs, categories) ==
    Positions(Len(fs), LAMBDA i : fs[i].keywords \cap categories # {})

\* the positions as given, without a sort
InInputOrder(fs, idxs) == idxs

\* sorted(..., key=_severity_order): stable
SortedBySeverity(fs, idxs) ==
    LET Of(k) == SelectSeq(idxs, LAMBDA i : _severity_order(fs[i].severity) = k)
    IN Of(0) \o Of(1) \o Of(2) \o Of(3)

\* lines 270-280
_format_single_finding(fs, i) ==
    Part("finding", i, 0,
         SevTitleFixed + EmojiLen + SeverityLabelLen(fs[i].severity) + fs[i].title
         + ResourceFixed + fs[i].resource_address
         + IssueFixed + fs[i].description
         + RemediationFixed + fs[i].remediation)

\* the pieces that f makes of each element of idxs, in order
Each(idxs, f(_)) == [k \in 1..Len(idxs) |-> f(idxs[k])]

\* lines 111-127
_format_security_section(fs, idxs) ==
    <<Part("security_head", 0, 0, SecurityHeadLen)>>
    \o Each(SortedBySeverity(fs, idxs),
            LAMBDA i : Part("security_finding", i, 0, _format_single_finding(fs, i).len))

\* lines 149-192
CostStr(c) == IF c > 0 THEN PerMonthFixed + MoneyLen(c) ELSE ZeroCostLen
NewCostStr(c) == PerMonthFixed + MoneyLen(c)
ChangeStr(change, fixed) ==
    IF change > 0 THEN fixed + MoneyLen(change)
    ELSE IF change < 0 THEN fixed + MoneyLen(0 - change)
    ELSE ZeroCostLen

_format_cost_table(ca) ==
    <<Part("table_head", 0, 0, TableHeadLen), Part("table_rule", 0, 0, TableRuleLen)>>
    \o [r \in 1..Len(ca.resources) |->
            Part("table_row", 0, r,
                 TableRowFixed + ca.resources[r].name
                 + CostStr(ca.resources[r].current_cost)
                 + NewCostStr(ca.resources[r].new_cost)
                 + ChangeStr(ca.resources[r].new_cost - ca.resources[r].current_cost,
                             ChangeFixed))]
    \o <<Part("table_total", 0, 0,
              TotalRowFixed + CostStr(ca.total_current_cost)
              + NewCostStr(ca.total_new_cost)
              + ChangeStr(ca.total_new_cost - ca.total_current_cost, TotalChangeFixed))>>

\* cost_analysis: None, the empty dict, or a dict with its keys
NoCost == [is |-> "None", resources |-> <<>>, total_current_cost |-> 0,
           total_new_cost |-> 0]
EmptyCost == [is |-> "{}", resources |-> <<>>, total_current_cost |-> 0,
              total_new_cost |-> 0]
Cost(resources, current, new) ==
    [is |-> "dict", resources |-> resources, total_current_cost |-> current,
     total_new_cost |-> new]
\* bool(cost_analysis)
TruthyUnlessNone(ca) == ca.is # "None"
Truthy(ca) == ca.is = "dict"

\* lines 129-147
_format_cost_section(fs, idxs, ca) ==
    <<Part("cost_head", 0, 0, CostHeadLen)>>
    \o (IF Truthy(ca) THEN _format_cost_table(ca) ELSE <<>>)
    \o (IF idxs # <<>>
        THEN <<Part("cost_findings_head", 0, 0, CostFindingsHeadLen)>>
             \o Each(idxs, LAMBDA i :
                    Part("cost_finding", i, 0,
                         PlainTitleFixed + EmojiLen + fs[i].title
                         + ResourceFixed + fs[i].resource_address
                         + ImpactFixed + fs[i].description
                         + RecommendationFixed + fs[i].remediation))
        ELSE <<>>)

\* lines 194-205
_format_operational_section(fs, idxs) ==
    <<Part("ops_head", 0, 0, OpsHeadLen)>>
    \o Each(idxs, LAMBDA i :
           Part("ops_finding", i, 0,
                PlainTitleFixed + EmojiLen + fs[i].title
                + ResourceFixed + fs[i].resource_address
                + IssueFixed + fs[i].description
                + RecommendationFixed + fs[i].remediation))

\* critical_high[:5]
TopN == 5
FirstN(s, n) == SubSeq(s, 1, IF Len(s) < n THEN Len(s) ELSE n)

CriticalHigh(fs) ==
    Positions(Len(fs), LAMBDA i : fs[i].severity \in {"CRITICAL", "HIGH"})

\* lines 207-221
_format_recommendations_section(fs) ==
    LET critical_high == CriticalHigh(fs)
        top == FirstN(critical_high, TopN)
    IN <<Part("rec_head", 0, 0, RecHeadLen)>>
       \o (IF critical_high # <<>>
           THEN <<Part("priority_actions", 0, 0, PriorityActionsLen)>>
                \o [k \in 1..Len(top) |->
                       Part("rec_item", top[k], k,
                            Digits(k) + RecItemFixed + fs[top[k]].remediation)]
           ELSE <<Part("no_action", 0, 0, NoActionLen)>>)

\* "\n".join(output_parts)
RECURSIVE Join(_)
Join(strs) ==
    IF strs = <<>> THEN <<>>
    ELSE IF Len(strs) = 1 THEN Head(strs)
    ELSE Head(strs) \o <<Part("join", 0, 0, 1)>> \o Join(Tail(strs))

\* line 254: the finding still goes in
FitsWithoutMargin(current_length, n) == ~(current_length + n > MAX_SECTION_LENGTH)
Fits(current_length, n) == ~(current_length + n > MAX_SECTION_LENGTH - FooterMargin)

\* line 264: omitted = len(findings) - included_count
OmittedIsTotal(total, included_count) == total
Omitted(total, included_count) == total - included_count

\* lines 223-268
_apply_length_limit(out, fs) ==
    IF StrLen(out) <= MAX_SECTION_LENGTH THEN out
    ELSE
    LET critical_high == SortedBySeverity(fs, CriticalHigh(fs))
        head == <<Part("header", 0, 0, HeaderLen),
                  Part("trunc_notice", 0, 0, TruncNoticeLen)>>
        \* the loop of lines 251-262 after k findings were looked at
        Loop[k \in 0..Len(critical_high)] ==
            IF k = 0
            THEN [parts |-> head, current_length |-> StrLen(head),
                  included_count |-> 0, broke |-> FALSE]
            ELSE LET prev == Loop[k - 1]
                     finding_text == _format_single_finding(fs, critical_high[k])
                 IN IF prev.broke \/ ~Fits(prev.current_length, finding_text.len)
                    THEN [prev EXCEPT !.broke = TRUE]
                    ELSE [parts |-> prev.parts
                                    \o (IF prev.included_count = 0
                                        THEN <<Part("priority_head", 0, 0,
                                                    PriorityFindingsLen)>>
                                        ELSE <<>>)
                                    \o <<finding_text>>,
                          current_length |-> prev.current_length + finding_text.len,
                          included_count |-> prev.included_count + 1,
                          broke |-> FALSE]
        end == Loop[Len(critical_high)]
        omitted == Omitted(Len(fs), end.included_count)
    IN end.parts
       \o (IF omitted > 0
           THEN <<Part("footer", 0, omitted, FooterFixed + Digits(omitted))>>
           ELSE <<>>)

\* lines 43-91
format(fs, ca) ==
    LET security_findings == _filter_by_category(fs, {"security", "compliance"})
        cost_findings == _filter_by_category(fs, {"cost"})
        operational_findings ==
            _filter_by_category(fs, {"operations", "operational", "performance"})
        output_parts ==
            <<<<Part("header", 0, 0, HeaderLen)>>>>
            \o (IF security_findings # <<>>
                THEN <<_format_security_section(fs, security_findings)>> ELSE <<>>)
            \o (IF Truthy(ca) \/ cost_findings # <<>>
                THEN <<_format_cost_section(fs, cost_findings, ca)>> ELSE <<>>)
            \o (IF operational_findings # <<>>
                THEN <<_format_operational_section(fs, operational_findings)>> ELSE <<>>)
            \o (IF fs # <<>> THEN <<_format_recommendations_section(fs)>> ELSE <<>>)
            \o (IF fs = <<>> /\ ~Truthy(ca)
                THEN << <<Part("all_clear_head", 0, 0, AllClearHeadLen)>>,
                        <<Part("all_clear_text", 0, 0, AllClearTextLen)>> >>
                ELSE <<>>)
    IN _apply_length_limit(Join(output_parts), fs)

\* description length with which a CRITICAL finding whose other texts are
\* short is rendered by _format_single_finding in exactly total characters
FillDesc(total) ==
    total - (SevTitleFixed + EmojiLen + SeverityLabelLen("CRITICAL") + ResourceFixed
             + IssueFixed + RemediationFixed + 3 * ShortText)

TruncHeadLen == HeaderLen + TruncNoticeLen
\* two such findings fill the truncated output exactly up to the margin
HalfDesc == FillDesc((MAX_SECTION_LENGTH - FooterMargin - TruncHeadLen) \div 2)
\* two such findings fill it exactly up to MAX_SECTION_LENGTH
HalfPlusDesc == FillDesc((MAX_SECTION_LENGTH - TruncHeadLen) \div 2)
\* one such finding is longer than MAX_SECTION_LENGTH
HugeDesc == FillDesc(MAX_SECTION_LENGTH + 1)

\* the findings handed to format: short ones of every severity and category,
\* and long ones that count as security and as cost findings
FindingInputs ==
    { Finding(sev, kw, ShortText, ShortText, ShortText, ShortText) :
        sev \in Severities,
        kw \in {{}, {"security"}, {"cost"}, {"operations"}} }
    \cup
    { Finding(sev, {"security", "cost"}, ShortText, ShortText, desc, ShortText) :
        sev \in {"CRITICAL", "HIGH", "MEDIUM"},
        desc \in {HalfDesc, HalfPlusDesc, HugeDesc} }

\* the cost_analysis handed to format
CostInputs ==
    { NoCost, EmptyCost,
      Cost(<<[name |-> ShortText, current_cost |-> 0, new_cost |-> 1050],
             [name |-> ShortText, current_cost |-> 7300, new_cost |-> 3650]>>,
           7300, 4700),
      Cost(<<[name |-> HugeDesc, current_cost |-> 1200, new_cost |-> 1200]>>,
           1200, 1200) }

FormatEntry(fs, ca) ==
    /\ findings = fs
    /\ cost_analysis = ca
    /\ output = <<>>
    /\ fpc = "call"

FormatIdle ==
    /\ findings = <<>>
    /\ cost_analysis = NoCost
    /\ output = <<>>
    /\ fpc = "idle"

\* OutputFormatter.format(findings, cost_analysis) returns
Format ==
    /\ fpc = "call"
    /\ output' = format(findings, cost_analysis)
    /\ fpc' = "done"
    /\ UNCHANGED <<findings, cost_analysis>>
    /\ UNCHANGED nonFmtVars

NextFormat == Format

(***************************************************************************)
(* handler.process_run_task and the eval it calls                          *)
(*                                                                         *)
(* setup_timeout_handler arms one SIGALRM; its handler raises              *)
(* TimeoutException in whatever frame is running.  eval is the eval of     *)
(* ai_simple.py; it calls retry_with_backoff with the default arguments.   *)
(***************************************************************************)
\* handler.py line 75: TimeoutException("Lambda execution approaching timeout")
TimeoutException ==
    Exc("TimeoutException", "",
        <<"L", "a", "m", "b", "d", "a", " ", "e", "x", "e", "c", "u", "t", "i", "o", "n",
          " ", "a", "p", "p", "r", "o", "a", "c", "h", "i", "n", "g", " ",
          "t", "i", "m", "e", "o", "u", "t">>)

\* ai_simple.py lines 83-85 and 92, 103, 114: the sections and their outcome-ids
SectionIds == <<"plan-summary", "impact-analysis", "ami-summary">>

\* the values of message
PlaceholderMessage == "Placeholder value"
AnalysisMessage == "AI-Powered Terraform Plan Analysis"
TimedOutMessage == "Analysis timed out - partial results returned"
TransientMessage == "Transient error occurred"

\* handler.py lines 140-148 and 164-172
TimeoutWarning == <<"timeout-warning">>
TransientError == <<"transient-error">>

NotLogged == [status |-> "", partial_results |-> FALSE]

\* handler.py lines 95-99
RunEntry(t, a) ==
    /\ rtype = t
    /\ ppc = "entry"
    /\ results = <<>>
    /\ status = "passed"
    /\ message = PlaceholderMessage
    /\ partial_results = FALSE
    /\ caught = NoError
    /\ pexc = NoError
    /\ logged = NotLogged
    /\ epc = "idle"
    /\ sections = <<>>
    /\ alarm = a
    /\ lost = <<>>

RunIdle ==
    /\ rtype = "post_plan"
    /\ ppc = "idle"
    /\ results = <<>>
    /\ status = "passed"
    /\ message = PlaceholderMessage
    /\ partial_results = FALSE
    /\ caught = NoError
    /\ pexc = NoError
    /\ logged = NotLogged
    /\ epc = "idle"
    /\ sections = <<>>
    /\ alarm = "none"
    /\ lost = <<>>

\* handler.py lines 102-109: up to the try statement
RunEnter ==
    /\ ppc = "entry"
    /\ ppc' = "try"
    /\ UNCHANGED <<rtype, results, status, message, partial_results, caught, pexc,
                   logged, epc, sections, alarm, lost>>
    /\ UNCHANGED <<retryVars, nonRunVars>>

\* handler.py lines 110-112: pre_plan, pass
RunPrePlan ==
    /\ ppc = "try"
    /\ rtype = "pre_plan"
    /\ ppc' = "epilogue"
    /\ UNCHANGED <<rtype, results, status, message, partial_results, caught, pexc,
                   logged, epc, sections, alarm, lost>>
    /\ UNCHANGED <<retryVars, nonRunVars>>

\* handler.py lines 114-123: post_plan, structured_logger.log_run_task(...)
RunLog ==
    /\ ppc = "try"
    /\ rtype = "post_plan"
    /\ ppc' = "call_eval"
    /\ UNCHANGED <<rtype, results, status, message, partial_results, caught, pexc,
                   logged, epc, sections, alarm, lost>>
    /\ UNCHANGED <<retryVars, nonRunVars>>

\* handler.py line 126: the call ai.eval(...)
RunCallEval ==
    /\ ppc = "call_eval"
    /\ ppc' = "eval"
    /\ epc' = "prompt"
    /\ UNCHANGED <<rtype, results, status, message, partial_results, caught, pexc,
                   logged, sections, alarm, lost>>
    /\ UNCHANGED <<retryVars, nonRunVars>>

\* ai_simple.py lines 23-65: the prompt, and the call of retry_with_backoff
EvalPrompt ==
    /\ ppc = "eval"
    /\ epc = "prompt"
    /\ epc' = "retry"
    /\ max_retries' = DefaultMaxRetries
    /\ attempt' = 0
    /\ last_exception' = NoError
    /\ rpc' = "loop"
    /\ rout' = NoOutcome
    /\ slept' = <<>>
    /\ fhist' = <<>>
    /\ UNCHANGED <<rtype, ppc, results, status, message, partial_results, caught, pexc,
                   logged, sections, alarm, lost>>
    /\ UNCHANGED nonRunVars

\* ai_simple.py lines 65-80: retry_with_backoff returned, full_result
EvalRetryReturned ==
    /\ epc = "retry"
    /\ rpc = "done"
    /\ rout.kind = "returned"
    /\ epc' = "extract"
    /\ rpc' = "idle"
    /\ UNCHANGED <<max_retries, attempt, last_exception, rout, slept, fhist>>
    /\ UNCHANGED <<rtype, ppc, results, status, message, partial_results, caught, pexc,
                   logged, sections, alarm, lost>>
    /\ UNCHANGED nonRunVars

\* the except clause of handler.py lines 128-175 that catches e
ExceptClause(e) ==
    IF e.cls = "TimeoutException" THEN "except_timeout" ELSE "except_exception"

\* ai_simple.py line 65: retry_with_backoff raised; eval has no handler, the
\* exception reaches the try statement of process_run_task
EvalRetryRaised ==
    /\ epc = "retry"
    /\ rpc = "done"
    /\ rout.kind = "raised"
    /\ caught' = rout.err
    /\ ppc' = ExceptClause(rout.err)
    /\ epc' = "idle"
    /\ rpc' = "idle"
    /\ lost' = IF rout.err.cls = "TimeoutException" THEN sections ELSE lost
    /\ sections' = <<>>
    /\ UNCHANGED <<max_retries, attempt, last_exception, rout, slept, fhist>>
    /\ UNCHANGED <<rtype, results, status, message, partial_results, pexc, logged, alarm>>
    /\ UNCHANGED nonRunVars

\* ai_simple.py lines 83-85: one extract_section call
EvalExtract ==
    /\ epc = "extract"
    /\ sections' = Append(sections, SectionIds[Len(sections) + 1])
    /\ epc' = IF Len(sections) + 1 = Len(SectionIds) THEN "build" ELSE "extract"
    /\ UNCHANGED <<rtype, ppc, results, status, message, partial_results, caught, pexc,
                   logged, alarm, lost>>
    /\ UNCHANGED <<retryVars, nonRunVars>>

\* ai_simple.py lines 88-124 and handler.py line 126: eval builds and returns
\* its three outcomes, message, results = ...
RunAssign ==
    /\ ppc = "eval"
    /\ epc = "build"
    /\ message' = AnalysisMessage
    /\ results' = sections
    /\ sections' = <<>>
    /\ epc' = "idle"
    /\ ppc' = "assigned"
    /\ UNCHANGED <<rtype, status, partial_results, caught, pexc, logged, alarm, lost>>
    /\ UNCHANGED <<retryVars, nonRunVars>>

\* handler.py line 126: the end of the try body
RunLeaveTry ==
    /\ ppc = "assigned"
    /\ ppc' = "epilogue"
    /\ UNCHANGED <<rtype, results, status, message, partial_results, caught, pexc,
                   logged, epc, sections, alarm, lost>>
    /\ UNCHANGED <<retryVars, nonRunVars>>

\* handler.py lines 139-148: if not results: results = [timeout-warning]
ResultsOnTimeout(rs) == IF rs = <<>> THEN TimeoutWarning ELSE rs

\* handler.py lines 128-149: except TimeoutException
RunExceptTimeout ==
    /\ ppc = "except_timeout"
    /\ status' = "passed"
    /\ message' = TimedOutMessage
    /\ results' = ResultsOnTimeout(results)
    /\ partial_results' = TRUE
    /\ ppc' = "epilogue"
    /\ UNCHANGED <<rtype, caught, pexc, logged, epc, sections, alarm, lost>>
    /\ UNCHANGED <<retryVars, nonRunVars>>

\* handler.py line 153: if is_retryable_error(e)
IsTransientNever(e) == FALSE
IsTransient(e) == is_retryable_error(e)

\* handler.py lines 151-172: except Exception, a transient error
RunExceptTransient ==
    /\ ppc = "except_exception"
    /\ IsTransient(caught)
    /\ status' = "passed"
    /\ message' = TransientMessage
    /\ results' = TransientError
    /\ ppc' = "epilogue"
    /\ UNCHANGED <<rtype, partial_results, caught, pexc, logged, epc, sections, alarm, lost>>
    /\ UNCHANGED <<retryVars, nonRunVars>>

\* handler.py lines 173-175: except Exception, raise
RunExceptRaise ==
    /\ ppc = "except_exception"
    /\ ~IsTransient(caught)
    /\ pexc' = caught
    /\ ppc' = "raised"
    /\ UNCHANGED <<rtype, results, status, message, partial_results, caught, logged,
                   epc, sections, alarm, lost>>
    /\ UNCHANGED <<retryVars, nonRunVars>>

\* handler.py lines 177-190: the duration metric, the closing log line, return
RunReturn ==
    /\ ppc = "epilogue"
    /\ logged' = [status |-> status, partial_results |-> partial_results]
    /\ ppc' = "done"
    /\ UNCHANGED <<rtype, results, status, message, partial_results, caught, pexc,
                   epc, sections, alarm, lost>>
    /\ UNCHANGED <<retryVars, nonRunVars>>

\* SIGALRM while func() runs (error_handling.py lines 97-100): the handler's
\* TimeoutException is an Exception, the except clause of retry_with_backoff
\* catches it
TimeoutInFunc ==
    /\ alarm = "armed"
    /\ ppc = "eval" /\ epc = "retry" /\ rpc = "call"
    /\ alarm' = "fired"
    /\ LET raised == [TimeoutException EXCEPT !.at = Len(fhist) + 1]
       IN  /\ fhist' = Append(fhist, raised)
           /\ last_exception' = raised
    /\ rpc' = "except"
    /\ UNCHANGED <<max_retries, attempt, rout, slept>>
    /\ UNCHANGED <<rtype, ppc, results, status, message, partial_results, caught, pexc,
                   logged, epc, sections, lost>>
    /\ UNCHANGED nonRunVars

\* the places inside the try body of process_run_task where no handler lies
\* between the running frame and the try statement
InTryBody ==
    \/ ppc \in {"try", "call_eval", "assigned"}
    \/ ppc = "eval" /\ epc \in {"prompt", "extract", "build"}
    \/ ppc = "eval" /\ epc = "retry" /\ rpc \in {"loop", "except", "after_loop", "done"}

\* SIGALRM elsewhere in the try body: the TimeoutException unwinds eval and
\* reaches except TimeoutException
TimeoutInTry ==
    /\ alarm = "armed"
    /\ InTryBody
    /\ alarm' = "fired"
    /\ caught' = TimeoutException
    /\ ppc' = ExceptClause(TimeoutException)
    /\ lost' = sections
    /\ sections' = <<>>
    /\ epc' = "idle"
    /\ rpc' = "idle"
    /\ UNCHANGED <<max_retries, attempt, last_exception, rout, slept, fhist>>
    /\ UNCHANGED <<rtype, results, status, message, partial_results, pexc, logged>>
    /\ UNCHANGED nonRunVars

\* SIGALRM outside the try body (lines 95-107, 151-175, 177-190): the
\* TimeoutException leaves process_run_task
TimeoutOutsideTry ==
    /\ alarm = "armed"
    /\ ppc \in {"entry", "except_exception", "epilogue"}
    /\ alarm' = "fired"
    /\ pexc' = TimeoutException
    /\ ppc' = "raised"
    /\ UNCHANGED <<rtype, results, status, message, partial_results, caught, logged,
                   epc, sections, lost>>
    /\ UNCHANGED <<retryVars, nonRunVars>>

\* retry_with_backoff runs with max_retries = 3 here: the loop ends in a
\* return or a raise, lines 121-123 are not reached
NextRun ==
    \/ RunEnter
    \/ RunPrePlan
    \/ RunLog
    \/ RunCallEval
    \/ EvalPrompt
    \/ RetryLoop
    \/ RetryCallReturns
    \/ RetryCallRaises
    \/ RetryRaise
    \/ RetrySleep
    \/ EvalRetryReturned
    \/ EvalRetryRaised
    \/ EvalExtract
    \/ RunAssign
    \/ RunLeaveTry
    \/ RunExceptTimeout
    \/ RunExceptTransient
    \/ RunExceptRaise
    \/ RunReturn
    \/ TimeoutInFunc
    \/ TimeoutInTry
    \/ TimeoutOutsideTry

(***************************************************************************)
(* ToolRegistry(): __new__ and __init__, and ToolRegistry.reset            *)
(***************************************************************************)
\* a new object has no _initialized attribute until line 51 sets it
NewObject == [initialized |-> "unset", inits |-> 0, _tools |-> {}, registered |-> {}]

NoCall == [kind |-> "none", obj |-> 0]

\* line 56 on an object without the attribute
AttributeError == "AttributeError"

InitNew ==
    /\ _instance = 0
    /\ _lock = "free"
    /\ objects = <<>>
    /\ npc = [t \in Threads |-> "idle"]
    /\ nself = [t \in Threads |-> 0]
    /\ nepoch = [t \in Threads |-> 0]
    /\ nout = [t \in Threads |-> NoCall]
    /\ ncalls = 0
    /\ nresets = 0
    /\ completed = {}

\* the call of thread t ends: it returned obj, or raised
NewFinish(t, kind, obj) ==
    /\ npc' = [npc EXCEPT ![t] = "idle"]
    /\ nout' = [nout EXCEPT ![t] = [kind |-> kind, obj |-> obj]]
    /\ completed' = completed \cup
            {[began |-> nepoch[t], ended |-> nresets, kind |-> kind, obj |-> obj]}

NewGoto(t, to) ==
    /\ npc' = [npc EXCEPT ![t] = to]
    /\ UNCHANGED <<nout, completed>>

\* a thread calls ToolRegistry()
NewCall(t) ==
    /\ npc[t] = "idle"
    /\ ncalls < MaxCalls
    /\ ncalls' = ncalls + 1
    /\ nepoch' = [nepoch EXCEPT ![t] = nresets]
    /\ NewGoto(t, "check")
    /\ UNCHANGED <<_instance, _lock, objects, nself, nresets>>
    /\ UNCHANGED nonNewVars

\* line 46: if cls._instance is None
NewCheck(t) ==
    /\ npc[t] = "check"
    /\ NewGoto(t, IF _instance = 0 THEN "acquire" ELSE "return")
    /\ UNCHANGED <<_instance, _lock, objects, nself, nepoch, ncalls, nresets>>
    /\ UNCHANGED nonNewVars

\* line 47: with cls._lock
NewAcquire(t) ==
    /\ npc[t] = "acquire"
    /\ _lock = "free"
    /\ _lock' = t
    /\ NewGoto(t, "recheck")
    /\ UNCHANGED <<_instance, objects, nself, nepoch, ncalls, nresets>>
    /\ UNCHANGED nonNewVars

\* line 49: if cls._instance is None
NewRecheck(t) ==
    /\ npc[t] = "recheck"
    /\ NewGoto(t, IF _instance = 0 THEN "create" ELSE "release")
    /\ UNCHANGED <<_instance, _lock, objects, nself, nepoch, ncalls, nresets>>
    /\ UNCHANGED nonNewVars

\* line 50: cls._instance = super().__new__(cls)
NewCreate(t) ==
    /\ npc[t] = "create"
    /\ objects' = Append(objects, NewObject)
    /\ _instance' = Len(objects) + 1
    /\ NewGoto(t, "mark")
    /\ UNCHANGED <<_lock, nself, nepoch, ncalls, nresets>>
    /\ UNCHANGED nonNewVars

\* line 51: cls._instance._initialized = False
NewMark(t) ==
    /\ npc[t] = "mark"
    /\ objects' = [objects EXCEPT ![_instance].initialized = "False"]
    /\ NewGoto(t, "release")
    /\ UNCHANGED <<_instance, _lock, nself, nepoch, ncalls, nresets>>
    /\ UNCHANGED nonNewVars

\* line 51: the end of the with block
NewRelease(t) ==
    /\ npc[t] = "release"
    /\ _lock' = "free"
    /\ NewGoto(t, "return")
    /\ UNCHANGED <<_instance, objects, nself, nepoch, ncalls, nresets>>
    /\ UNCHANGED nonNewVars

\* line 52: return cls._instance; type.__call__ runs __init__ on an instance
\* of the class, and returns None as it is
NewReturn(t) ==
    /\ npc[t] = "return"
    /\ nself' = [nself EXCEPT ![t] = _instance]
    /\ IF _instance = 0
       THEN NewFinish(t, "returned", 0)
       ELSE NewGoto(t, "init")
    /\ UNCHANGED <<_instance, _lock, objects, nepoch, ncalls, nresets>>
    /\ UNCHANGED nonNewVars

\* lines 56-57: if self._initialized: return
InitCheck(t) ==
    /\ npc[t] = "init"
    /\ CASE objects[nself[t]].initialized = "unset" -> NewFinish(t, AttributeError, 0)
         [] objects[nself[t]].initialized = "True" -> NewFinish(t, "returned", nself[t])
         [] objects[nself[t]].initialized = "False" -> NewGoto(t, "init_body")
    /\ UNCHANGED <<_instance, _lock, objects, nself, nepoch, ncalls, nresets>>
    /\ UNCHANGED nonNewVars

\* lines 59-61: self._tools = {}, self._registry_lock = Lock(),
\* self._initialized = True
InitBody(t) ==
    /\ npc[t] = "init_body"
    /\ objects' = [objects EXCEPT ![nself[t]] =
                        [@ EXCEPT !.initialized = "True", !.inits = @ + 1, !._tools = {}]]
    /\ NewFinish(t, "returned", nself[t])
    /\ UNCHANGED <<_instance, _lock, nself, nepoch, ncalls, nresets>>
    /\ UNCHANGED nonNewVars

\* lines 63-98: a thread registers a tool on the registry its call of
\* ToolRegistry() returned; the name is stored and the call returns
NewRegister(t) ==
    /\ npc[t] = "idle"
    /\ nout[t].kind = "returned"
    /\ nout[t].obj # 0
    /\ "ec2" \notin objects[nout[t].obj]._tools
    /\ objects' = [objects EXCEPT ![nout[t].obj] =
                        [@ EXCEPT !._tools = @ \cup {"ec2"},
                                  !.registered = @ \cup {"ec2"}]]
    /\ UNCHANGED <<_instance, _lock, npc, nself, nepoch, nout, ncalls, nresets, completed>>
    /\ UNCHANGED nonNewVars

\* lines 150-151: with cls._lock: cls._instance = None
Reset ==
    /\ nresets < MaxResets
    /\ _lock = "free"
    /\ _instance' = 0
    /\ nresets' = nresets + 1
    /\ UNCHANGED <<_lock, objects, npc, nself, nepoch, nout, ncalls, completed>>
    /\ UNCHANGED nonNewVars

NextNew ==
    \/ \E t \in Threads :
        \/ NewCall(t)
        \/ NewCheck(t)
        \/ NewAcquire(t)
        \/ NewRecheck(t)
        \/ NewCreate(t)
        \/ NewMark(t)
        \/ NewRelease(t)
        \/ NewReturn(t)
        \/ InitCheck(t)
        \/ InitBody(t)
        \/ NewRegister(t)
    \/ Reset

(***************************************************************************)
(* MetricsEmitter                                                          *)
(***************************************************************************)
\* one emit_count or emit_duration call: the metric and its ToolName dimension
Metric(kind, metric_name, tool) == [kind |-> kind, metric_name |-> metric_name, tool |-> tool]

\* lines 129-138: the two calls emit_tool_execution makes
ToolExecutionMetrics(tool_name, success) ==
    << Metric("count",
              IF success THEN "ToolExecutionSuccess" ELSE "ToolExecutionFailure",
              tool_name),
       Metric("duration", "ToolExecutionDuration", tool_name) >>

\* what put_metric_data can raise
PutErrors == {Throttled, AccessDenied, ConnectionReset, Interrupt}

\* lines 68-71 and 108-111: except ClientError, except Exception
EmitCatchesClientErrorOnly(e) == e.cls = "ClientError"
EmitCatches(e) == e.cls \in ExceptionClasses

\* the state after MetricsEmitter(...): boto3.client returned a client, or
\* raised and line 31 stored None
InitMetrics ==
    /\ cloudwatch \in BOOLEAN
    /\ mpc = "idle"
    /\ mtodo = <<>>
    /\ put_log = <<>>
    /\ mhist = <<>>
    /\ mesc = NoError
    /\ emitted = <<>>
    /\ mstarted = 0
    /\ mreturned = 0

MetricsIdle ==
    /\ cloudwatch = TRUE
    /\ mpc = "idle"
    /\ mtodo = <<>>
    /\ put_log = <<>>
    /\ mhist = <<>>
    /\ mesc = NoError
    /\ emitted = <<>>
    /\ mstarted = 0
    /\ mreturned = 0

\* a caller calls emit_duration(metric_name, duration_ms)
EmitDurationCall ==
    /\ mpc = "idle"
    /\ mstarted < MaxEmits
    /\ mstarted' = mstarted + 1
    /\ mtodo' = <<Metric("duration", "RunTaskDuration", "")>>
    /\ mpc' = "check"
    /\ UNCHANGED <<cloudwatch, put_log, mhist, mesc, emitted, mreturned>>
    /\ UNCHANGED nonMetricVars

\* a caller calls emit_count(metric_name)
EmitCountCall ==
    /\ mpc = "idle"
    /\ mstarted < MaxEmits
    /\ mstarted' = mstarted + 1
    /\ mtodo' = <<Metric("count", "RunTaskCount", "")>>
    /\ mpc' = "check"
    /\ UNCHANGED <<cloudwatch, put_log, mhist, mesc, emitted, mreturned>>
    /\ UNCHANGED nonMetricVars

\* a caller calls emit_tool_execution(tool_name, success, duration_ms)
EmitToolExecutionCall ==
    /\ mpc = "idle"
    /\ mstarted < MaxEmits
    /\ mstarted' = mstarted + 1
    /\ \E tool_name \in {"EC2Validator", "S3Validator"} : \E success \in BOOLEAN :
        /\ mtodo' = ToolExecutionMetrics(tool_name, success)
        /\ emitted' = Append(emitted, [tool_name |-> tool_name, success |-> success])
    /\ mpc' = "check"
    /\ UNCHANGED <<cloudwatch, put_log, mhist, mesc, mreturned>>
    /\ UNCHANGED nonMetricVars

\* the running emit_count / emit_duration returns: emit_tool_execution goes on
\* with its next call, any other call returns to its caller
EmitReturn ==
    /\ mtodo' = Tail(mtodo)
    /\ IF Len(mtodo) > 1
       THEN mpc' = "check" /\ mreturned' = mreturned
       ELSE mpc' = "idle" /\ mreturned' = mreturned + 1

\* lines 46-48 and 86-88: if not self.cloudwatch: return
EmitSkip ==
    /\ mpc = "check"
    /\ ~cloudwatch
    /\ EmitReturn
    /\ UNCHANGED <<cloudwatch, put_log, mhist, mesc, emitted, mstarted>>
    /\ UNCHANGED nonMetricVars

\* lines 50-61 and 90-101: metric_data is built
EmitBuild ==
    /\ mpc = "check"
    /\ cloudwatch
    /\ mpc' = "put"
    /\ UNCHANGED <<cloudwatch, mtodo, put_log, mhist, mesc, emitted, mstarted, mreturned>>
    /\ UNCHANGED nonMetricVars

\* lines 63-66 and 103-106: put_metric_data returns
EmitPutReturns ==
    /\ mpc = "put"
    /\ put_log' = Append(put_log, Head(mtodo))
    /\ mhist' = Append(mhist, FuncOk)
    /\ EmitReturn
    /\ UNCHANGED <<cloudwatch, mesc, emitted, mstarted>>
    /\ UNCHANGED nonMetricVars

\* lines 63-71 and 103-111: put_metric_data raises
EmitPutRaises ==
    /\ mpc = "put"
    /\ \E e \in PutErrors :
        /\ mhist' = Append(mhist, e)
        /\ IF EmitCatches(e)
           THEN EmitReturn /\ mesc' = mesc
           ELSE /\ mesc' = e
                /\ mpc' = "raised"
                /\ UNCHANGED <<mtodo, mreturned>>
    /\ UNCHANGED <<cloudwatch, put_log, emitted, mstarted>>
    /\ UNCHANGED nonMetricVars

NextMetrics ==
    \/ EmitDurationCall
    \/ EmitCountCall
    \/ EmitToolExecutionCall
    \/ EmitSkip
    \/ EmitBuild
    \/ EmitPutReturns
    \/ EmitPutRaises

(***************************************************************************)
(* The validators: S3ValidatorTool, EC2ValidatorTool,                      *)
(* SecurityGroupValidatorTool, CostEstimatorTool                           *)
(***************************************************************************)
\* Python's None and a dict, for an Optional[Dict] field; d maps the keys the
\* dict has to their values
PyNone == [is |-> "None", d |-> <<>>]
PyDict(d) == [is |-> "dict", d |-> d]

\* dict.get(key, default)
Get(d, key, default) == IF key \in DOMAIN d THEN d[key] ELSE default

\* models/tool_models.py lines 28-34: a Finding.  title: the fixed words of the
\* title; items: what the texts name (setting labels, instance type parts);
\* port: the port the texts name (0: none)
VFinding(sev, title, items, port) ==
    [severity |-> sev, title |-> title, items |-> items, port |-> port]

\* models/tool_models.py lines 37-41: a ToolOutput; error "None" is None
ToolOutput(success, fs, error) == [success |-> success, findings |-> fs, error |-> error]

NoToolOutput == ToolOutput(TRUE, <<>>, "not returned")

\* the except clause of each execute: ToolOutput(success=False, findings=[],
\* error=f"<prefix>: {str(e)}")
FailureWithoutError(prefix, e) == ToolOutput(FALSE, <<>>, "None")
Failure(prefix, e) == ToolOutput(FALSE, <<>>, prefix \o ": " \o e)

\* what a helper of execute did: the findings it returned, or the exception it
\* raised ("": none)
Found(fs) == [raised |-> "", findings |-> fs]
Raises(e) == [raised |-> e, findings |-> <<>>]

(* S3ValidatorTool *)
\* s3_validator.py lines 188-193: required_settings, in dict order
required_settings ==
    << [key |-> "block_public_acls", label |-> "Block Public ACLs"],
       [key |-> "block_public_policy", label |-> "Block Public Policy"],
       [key |-> "ignore_public_acls", label |-> "Ignore Public ACLs"],
       [key |-> "restrict_public_buckets", label |-> "Restrict Public Buckets"] >>

\* line 197 with an absent setting taken as enabled
IsDisabledUnlessAbsent(d, key) == ~Get(d, key, TRUE)
\* line 197: not public_access_block.get(setting_key, False)
IsDisabled(d, key) == ~Get(d, key, FALSE)

RECURSIVE Labels(_)
Labels(settings) ==
    IF settings = <<>> THEN <<>> ELSE <<Head(settings).label>> \o Labels(Tail(settings))

\* s3_validator.py lines 146-224
_validate_public_access(public_access_block) ==
    IF public_access_block.is = "None"
    THEN <<VFinding("CRITICAL", "has no public access block configuration", <<>>, 0)>>
    ELSE LET disabled_settings ==
                 Labels(SelectSeq(required_settings,
                                  LAMBDA st : IsDisabled(public_access_block.d, st.key)))
         IN IF disabled_settings # <<>>
            THEN <<VFinding("CRITICAL", "has public access block settings disabled",
                            disabled_settings, 0)>>
            ELSE <<>>

\* the strings of an encryption dict, as the tuples of their characters
AES256 == <<"A", "E", "S", "2", "5", "6">>
aes256 == <<"a", "e", "s", "2", "5", "6">>
aws_kms == <<"a", "w", "s", ":", "k", "m", "s">>
DES == <<"D", "E", "S">>
Key1 == <<"k", "e", "y", "-", "1">>

\* a value that is None (JSON null) and no string
NullValue == <<"None">>

\* s3_validator.py lines 226-320
_validate_encryption(encryption) ==
    IF encryption.is = "None"
    THEN Found(<<VFinding("HIGH", "does not have encryption enabled", <<>>, 0)>>)
    ELSE LET got == Get(encryption.d, "sse_algorithm", <<>>)
         IN IF got = NullValue
            THEN Raises("AttributeError")    \* line 269: None.lower()
            ELSE LET sse_algorithm == Lower(got)
                 IN IF sse_algorithm = <<>>
                    THEN Found(<<VFinding("HIGH", "has invalid encryption configuration",
                                          <<>>, 0)>>)
                    ELSE IF sse_algorithm \notin {aes256, aws_kms}
                    THEN Found(<<VFinding("HIGH", "has unsupported encryption algorithm",
                                          <<>>, 0)>>)
                    ELSE IF /\ sse_algorithm = aws_kms
                            /\ Get(encryption.d, "kms_master_key_id", <<>>) \in {<<>>, NullValue}
                    THEN Found(<<VFinding("LOW", "uses default KMS key", <<>>, 0)>>)
                    ELSE Found(<<>>)

\* an input_data without a required field: the input model raises
\* pydantic's ValidationError
Invalid == [valid |-> FALSE]

\* s3_validator.py lines 100-144
S3Execute(inp) ==
    IF ~inp.valid
    THEN Failure("S3 validation error", "ValidationError")
    ELSE LET public_access_findings == _validate_public_access(inp.public_access_block)
             encryption_findings == _validate_encryption(inp.encryption)
         IN IF encryption_findings.raised # ""
            THEN Failure("S3 validation error", encryption_findings.raised)
            ELSE ToolOutput(TRUE, public_access_findings \o encryption_findings.findings,
                            "None")

FlagKeys == {required_settings[k].key : k \in 1..Len(required_settings)}

PublicAccessBlocks ==
    {PyNone} \cup {PyDict(d) : d \in UNION {[ks -> BOOLEAN] : ks \in SUBSET FlagKeys}}

Encryptions ==
    {PyNone, PyDict([k \in {} |-> <<>>])}
    \cup {PyDict([k \in {"sse_algorithm"} |-> a]) :
            a \in {<<>>, NullValue, AES256, aes256, aws_kms, DES}}
    \cup {PyDict([k \in {"sse_algorithm", "kms_master_key_id"} |->
                    IF k = "sse_algorithm" THEN aws_kms ELSE key]) :
            key \in {<<>>, NullValue, Key1}}

S3Inputs ==
    {Invalid}
    \cup {[valid |-> TRUE, public_access_block |-> p, encryption |-> e] :
            p \in PublicAccessBlocks, e \in Encryptions}

ToolEntry(v, inp) ==
    /\ validator = v
    /\ input_data = inp
    /\ tpc = "call"
    /\ tool_output = NoToolOutput

ToolIdle ==
    /\ validator = "none"
    /\ input_data = Invalid
    /\ tpc = "idle"
    /\ tool_output = NoToolOutput

\* S3ValidatorTool().execute(input_data)
S3ValidatorExecute ==
    /\ tpc = "call"
    /\ validator = "S3Validator"
    /\ tool_output' = S3Execute(input_data)
    /\ tpc' = "done"
    /\ UNCHANGED <<validator, input_data>>
    /\ UNCHANGED nonToolVars

(* EC2ValidatorTool *)
\* ec2_validator.py lines 226-235: recommendations
recommendations ==
    [family \in {"t2", "t3", "m4", "m5", "c4", "c5", "r4", "r5"} |->
        CASE family = "t2" -> "t3"
          [] family = "t3" -> "t3a"
          [] family = "m4" -> "m5"
          [] family = "m5" -> "m6i"
          [] family = "c4" -> "c5"
          [] family = "c5" -> "c6i"
          [] family = "r4" -> "r5"
          [] family = "r5" -> "r6i"]

\* ec2_validator.py lines 207-244; parts is instance_type.split('.')
_get_instance_type_recommendation(parts) ==
    IF Len(parts) # 2
    THEN <<"Use a valid instance type format">>
    ELSE <<"Consider using", Get(recommendations, parts[1], "t3"), parts[2]>>

\* what ec2_client.describe_instance_types does: it returns the type, returns
\* an empty InstanceTypes list, raises a ClientError with a code, or raises
\* an error that is no ClientError
DescribeOutcomes ==
    {"InstanceTypes", "empty", "ClientError:InvalidInstanceType",
     "ClientError:UnauthorizedOperation", "ClientError:RequestLimitExceeded",
     "EndpointConnectionError"}

\* the CRITICAL finding of lines 181-193, with the remediation of the other branch
InvalidTypeWithAlternative(parts) ==
    VFinding("CRITICAL", "Invalid instance type", _get_instance_type_recommendation(parts), 0)
\* lines 181-193
InvalidType(parts) ==
    VFinding("CRITICAL", "Invalid instance type",
             <<"Check the instance type name for typos", "t3, m5, or c5 families">>, 0)

\* ec2_validator.py lines 138-205
_validate_instance_type(parts, describe) ==
    CASE describe = "InstanceTypes" -> Found(<<>>)
      [] describe = "empty" ->
            Found(<<VFinding("HIGH", "not available in",
                             _get_instance_type_recommendation(parts), 0)>>)
      [] describe = "ClientError:InvalidInstanceType" -> Found(<<InvalidType(parts)>>)
      [] describe \in {"ClientError:UnauthorizedOperation", "ClientError:RequestLimitExceeded"} ->
            Found(<<VFinding("MEDIUM", "Unable to validate instance type", <<>>, 0)>>)
      [] OTHER -> Raises(describe)

\* ec2_validator.py lines 246-296; releases is what ami_validator.execute does
_validate_ami(releases) ==
    CASE releases = "release" -> <<VFinding("LOW", "ECS-optimized AMI detected", <<>>, 0)>>
      [] releases = "no release" -> <<>>
      [] OTHER -> <<VFinding("LOW", "Unable to retrieve AMI release information", <<>>, 0)>>

\* ec2_validator.py lines 91-136
Ec2Execute(inp) ==
    IF ~inp.valid
    THEN Failure("EC2 validation error", "ValidationError")
    ELSE LET instance_findings == _validate_instance_type(inp.instance_type, inp.describe)
         IN IF instance_findings.raised # ""
            THEN Failure("EC2 validation error", instance_findings.raised)
            ELSE ToolOutput(TRUE,
                            instance_findings.findings
                            \o (IF inp.ami_id # "None" THEN _validate_ami(inp.releases)
                                ELSE <<>>),
                            "None")

InstanceTypes ==
    { <<"t2", "micro">>, <<"t3", "small">>, <<"m4", "large">>, <<"m5", "xlarge">>,
      <<"c4", "large">>, <<"c5", "large">>, <<"r4", "2xlarge">>, <<"r5", "large">>,
      <<"x1e", "xlarge">>, <<"t3">>, <<"u", "6tb1", "metal">> }

Ec2Inputs ==
    {Invalid}
    \cup {[valid |-> TRUE, instance_type |-> it, describe |-> d, ami_id |-> "None",
           releases |-> "no release"] : it \in InstanceTypes, d \in DescribeOutcomes}
    \cup {[valid |-> TRUE, instance_type |-> it, describe |-> d, ami_id |-> "ami-1",
           releases |-> r] :
            it \in {<<"t2", "micro">>}, d \in DescribeOutcomes,
            r \in {"release", "no release", "ConnectionError"}}

\* EC2ValidatorTool().execute(input_data)
EC2ValidatorExecute ==
    /\ tpc = "call"
    /\ validator = "EC2Validator"
    /\ tool_output' = Ec2Execute(input_data)
    /\ tpc' = "done"
    /\ UNCHANGED <<validator, input_data>>
    /\ UNCHANGED nonToolVars

(* SecurityGroupValidatorTool *)
\* security_group_validator.py lines 53-58: SENSITIVE_PORTS, in dict order
SENSITIVE_PORTS ==
    << [port |-> 22, service_name |-> "SSH", severity |-> "CRITICAL"],
       [port |-> 3389, service_name |-> "RDP", severity |-> "CRITICAL"],
       [port |-> 3306, service_name |-> "MySQL", severity |-> "HIGH"],
       [port |-> 5432, service_name |-> "PostgreSQL", severity |-> "HIGH"] >>

\* the value of the key cidr_blocks: a list (as the set of its elements), or None
CidrList(blocks) == [is |-> "list", d |-> blocks]
CidrNone == [is |-> "None", d |-> {}]

\* an element of ingress_rules / egress_rules; from_port and to_port are <<>>
\* for None (key absent) and <<p>> for the port p
Rule(cidr_blocks, protocol, from_port, to_port) ==
    [cidr_blocks |-> cidr_blocks, protocol |-> protocol,
     from_port |-> from_port, to_port |-> to_port]

\* line 269 with the upper end left out of the range
InRangeExclusive(from_port, port, to_port) == from_port <= port /\ port < to_port
\* line 269: from_port <= port <= to_port
InRange(from_port, port, to_port) == from_port <= port /\ port <= to_port

RECURSIVE ExposedFindings(_)
ExposedFindings(ports) ==
    IF ports = <<>> THEN <<>>
    ELSE <<VFinding(Head(ports).severity, "exposes", <<Head(ports).service_name>>,
                    Head(ports).port)>>
         \o ExposedFindings(Tail(ports))

\* security_group_validator.py lines 224-290
_check_sensitive_ports(from_port, to_port, protocol) ==
    IF protocol = "-1" \/ from_port = <<>> \/ to_port = <<>>
    THEN <<VFinding("CRITICAL", "allows all traffic from anywhere", <<>>, 0)>>
    ELSE ExposedFindings(SelectSeq(SENSITIVE_PORTS,
                                   LAMBDA sp : InRange(from_port[1], sp.port, to_port[1])))

\* security_group_validator.py lines 180-222; line 209 raises TypeError when
\* cidr_blocks is None
RECURSIVE _validate_ingress_rules(_)
_validate_ingress_rules(ingress_rules) ==
    IF ingress_rules = <<>> THEN Found(<<>>)
    ELSE LET rule == Head(ingress_rules)
         IN IF rule.cidr_blocks.is = "None" THEN Raises("TypeError")
            ELSE LET rest == _validate_ingress_rules(Tail(ingress_rules))
                     rule_findings ==
                         IF "0.0.0.0/0" \notin rule.cidr_blocks.d THEN <<>>
                         ELSE _check_sensitive_ports(rule.from_port, rule.to_port,
                                                     rule.protocol)
                 IN IF rest.raised # "" THEN rest
                    ELSE Found(rule_findings \o rest.findings)

\* security_group_validator.py lines 141-178
SgExecute(inp) ==
    IF ~inp.valid
    THEN Failure("Security group validation error", "ValidationError")
    ELSE LET ingress_findings == _validate_ingress_rules(inp.ingress_rules)
         IN IF ingress_findings.raised # ""
            THEN Failure("Security group validation error", ingress_findings.raised)
            ELSE ToolOutput(TRUE, ingress_findings.findings, "None")

FromPorts == {<<>>, <<0>>, <<22>>, <<23>>, <<3306>>, <<5433>>}
ToPorts == {<<>>, <<21>>, <<22>>, <<3389>>, <<5432>>, <<65535>>}
CidrLists == {CidrList({}), CidrList({"10.0.0.0/8"}), CidrList({"0.0.0.0/0"}),
              CidrList({"10.0.0.0/8", "0.0.0.0/0"})}

Rules == {Rule(c, p, f, t) : c \in CidrLists, p \in {"tcp", "-1"}, f \in FromPorts,
                             t \in ToPorts}

\* rules to combine in lists of two
PairRules ==
    { Rule(CidrList({"0.0.0.0/0"}), "tcp", <<22>>, <<22>>),
      Rule(CidrList({"0.0.0.0/0"}), "tcp", <<0>>, <<65535>>),
      Rule(CidrList({"0.0.0.0/0"}), "-1", <<0>>, <<21>>),
      Rule(CidrList({"10.0.0.0/8"}), "tcp", <<22>>, <<22>>),
      Rule(CidrList({"0.0.0.0/0"}), "tcp", <<3306>>, <<5432>>),
      Rule(CidrNone, "tcp", <<22>>, <<22>>) }

RuleLists == {<<>>} \cup {<<r>> : r \in Rules} \cup {<<r, q>> : r, q \in PairRules}

SgInputs ==
    {Invalid}
    \cup {[valid |-> TRUE, ingress_rules |-> rs, egress_rules |-> <<>>] : rs \in RuleLists}
    \cup {[valid |-> TRUE, ingress_rules |-> rs, egress_rules |-> es] :
            rs \in {<<>>, <<Rule(CidrList({"10.0.0.0/8"}), "tcp", <<22>>, <<22>>)>>},
            es \in {<<r>> : r \in PairRules}}

\* SecurityGroupValidatorTool().execute(input_data)
SecurityGroupValidatorExecute ==
    /\ tpc = "call"
    /\ validator = "SecurityGroupValidator"
    /\ tool_output' = SgExecute(input_data)
    /\ tpc' = "done"
    /\ UNCHANGED <<validator, input_data>>
    /\ UNCHANGED nonToolVars

(* CostEstimatorTool *)
\* Money is counted in 1/100000 of a dollar, so that every rate below is an
\* integer; an instance type is written family.size.

\* cost_estimator.py lines 47-74: FALLBACK_PRICING
FALLBACK_PRICING ==
    [it \in {"t3.nano", "t3.micro", "t3.small", "t3.medium", "t3.large", "t3.xlarge",
             "t3.2xlarge", "t3a.nano", "t3a.micro", "t3a.small", "t3a.medium",
             "t3a.large", "t3a.xlarge", "t3a.2xlarge", "m5.large", "m5.xlarge",
             "m5.2xlarge", "m5.4xlarge", "c5.large", "c5.xlarge", "c5.2xlarge",
             "c5.4xlarge"} |->
        CASE it = "t3.nano" -> 520 [] it = "t3.micro" -> 1040 [] it = "t3.small" -> 2080
          [] it = "t3.medium" -> 4160 [] it = "t3.large" -> 8320
          [] it = "t3.xlarge" -> 16640 [] it = "t3.2xlarge" -> 33280
          [] it = "t3a.nano" -> 470 [] it = "t3a.micro" -> 940 [] it = "t3a.small" -> 1880
          [] it = "t3a.medium" -> 3760 [] it = "t3a.large" -> 7520
          [] it = "t3a.xlarge" -> 15040 [] it = "t3a.2xlarge" -> 30080
          [] it = "m5.large" -> 9600 [] it = "m5.xlarge" -> 19200
          [] it = "m5.2xlarge" -> 38400 [] it = "m5.4xlarge" -> 76800
          [] it = "c5.large" -> 8500 [] it = "c5.xlarge" -> 17000
          [] it = "c5.2xlarge" -> 34000 [] it = "c5.4xlarge" -> 68000]

\* cost_estimator.py line 77
COST_THRESHOLD_PERCENT == 20

\* lines 384-394: size_multipliers, doubled (nano is 0.5)
size_multipliers2 ==
    [size \in {"nano", "micro", "small", "medium", "large", "xlarge", "2xlarge",
               "4xlarge", "8xlarge"} |->
        CASE size = "nano" -> 1 [] size = "micro" -> 2 [] size = "small" -> 4
          [] size = "medium" -> 8 [] size = "large" -> 16 [] size = "xlarge" -> 32
          [] size = "2xlarge" -> 64 [] size = "4xlarge" -> 128 [] size = "8xlarge" -> 256]

\* lines 397-407: family_base_rates
family_base_rates ==
    [family \in {"t3", "t3a", "t2", "m5", "m6i", "c5", "c6i", "r5", "r6i"} |->
        CASE family = "t3" -> 1040 [] family = "t3a" -> 940 [] family = "t2" -> 1160
          [] family = "m5" -> 2400 [] family = "m6i" -> 2400
          [] family = "c5" -> 2120 [] family = "c6i" -> 2120
          [] family = "r5" -> 3150 [] family = "r6i" -> 3150]

\* an instance type of the inputs: its name and instance_type.split('.')
IType(name, parts) == [name |-> name, parts |-> parts]

\* cost_estimator.py lines 365-419
_estimate_cost_by_family(it) ==
    IF Len(it.parts) # 2 THEN 10000
    ELSE (Get(family_base_rates, it.parts[1], 1040)
          * Get(size_multipliers2, it.parts[2], 2)) \div 2

\* cost_estimator.py lines 344-363
_get_fallback_cost(it, hours_per_month) ==
    (IF it.name \in DOMAIN FALLBACK_PRICING THEN FALLBACK_PRICING[it.name]
     ELSE _estimate_cost_by_family(it)) * hours_per_month

\* cost_estimator.py lines 206-231; api is what _get_pricing_from_api gave:
\* <<rate>>, or <<>> for None (no price found, or the Pricing API failed)
_get_instance_cost(it, api, hours_per_month) ==
    IF api # <<>> THEN api[1] * hours_per_month
    ELSE _get_fallback_cost(it, hours_per_month)

\* percent_change as the fraction num / den, den > 0
Percent(num, den) == [num |-> num, den |-> den]

\* lines 455 with >= for >
ReachesThreshold(p) == p.num >= COST_THRESHOLD_PERCENT * p.den
\* line 455: percent_change > self.COST_THRESHOLD_PERCENT
ExceedsThreshold(p) == p.num > COST_THRESHOLD_PERCENT * p.den

\* cost_estimator.py lines 421-513
_compare_costs(old_cost, new_cost) ==
    LET cost_diff == new_cost - old_cost
        percent_change ==
            IF old_cost > 0 THEN Percent(cost_diff * 100, old_cost)
            ELSE Percent(IF new_cost > 0 THEN 100 ELSE 0, 1)
    IN <<CASE ExceedsThreshold(percent_change) ->
                 VFinding("HIGH", "High-impact cost increase", <<>>, 0)
           [] ~ExceedsThreshold(percent_change) /\ percent_change.num > 0 ->
                 VFinding("LOW", "Cost increase", <<>>, 0)
           [] ~ExceedsThreshold(percent_change) /\ percent_change.num < 0 ->
                 VFinding("LOW", "Cost savings", <<>>, 0)
           [] OTHER -> VFinding("LOW", "No cost change", <<>>, 0)>>

\* cost_estimator.py lines 134-204
CostExecute(inp) ==
    IF ~inp.valid
    THEN Failure("Cost estimation error", "ValidationError")
    ELSE LET new_cost == _get_instance_cost(inp.instance_type, inp.api_new,
                                            inp.hours_per_month)
         IN IF inp.old_instance_type # <<>>
            THEN ToolOutput(TRUE,
                            _compare_costs(_get_instance_cost(inp.old_instance_type[1],
                                                              inp.api_old,
                                                              inp.hours_per_month),
                                           new_cost),
                            "None")
            ELSE ToolOutput(TRUE,
                            <<VFinding("LOW", "Estimated monthly cost for", <<>>, 0)>>,
                            "None")

CostTypes ==
    { IType("t3.micro", <<"t3", "micro">>), IType("t3.small", <<"t3", "small">>),
      IType("t3a.micro", <<"t3a", "micro">>), IType("m5.large", <<"m5", "large">>),
      IType("r5.nano", <<"r5", "nano">>), IType("x9.huge", <<"x9", "huge">>),
      IType("t3", <<"t3">>) }

\* hourly rates answered by the Pricing API, and <<>> for no answer
ApiRates == {<<>>, <<0>>, <<900>>, <<1000>>, <<1100>>, <<1200>>, <<1201>>, <<1250>>}

HoursPerMonth == {0, 1, 730}

CostInputsOfTool ==
    {Invalid}
    \cup {[valid |-> TRUE, instance_type |-> it, old_instance_type |-> <<>>,
           api_new |-> an, api_old |-> <<>>, hours_per_month |-> 730] :
            it \in CostTypes, an \in ApiRates}
    \cup {[valid |-> TRUE, instance_type |-> it, old_instance_type |-> <<ot>>,
           api_new |-> <<>>, api_old |-> <<>>, hours_per_month |-> h] :
            it \in CostTypes, ot \in CostTypes, h \in HoursPerMonth}
    \cup {[valid |-> TRUE, instance_type |-> it, old_instance_type |-> <<it>>,
           api_new |-> an, api_old |-> ao, hours_per_month |-> h] :
            it \in {IType("t3.micro", <<"t3", "micro">>)},
            an \in ApiRates, ao \in ApiRates, h \in HoursPerMonth}

\* CostEstimatorTool().execute(input_data)
CostEstimatorExecute ==
    /\ tpc = "call"
    /\ validator = "CostEstimator"
    /\ tool_output' = CostExecute(input_data)
    /\ tpc' = "done"
    /\ UNCHANGED <<validator, input_data>>
    /\ UNCHANGED nonToolVars

NextTools ==
    \/ S3ValidatorExecute
    \/ EC2ValidatorExecute
    \/ SecurityGroupValidatorExecute
    \/ CostEstimatorExecute
    \/ NextDegrade

(***************************************************************************)
(* Specifications                                                          *)
(***************************************************************************)
\* threads working on one initialized ToolRegistry
InitSpecRegistry ==
    /\ InitRegistry /\ RetryIdle /\ DegradeIdle /\ FormatIdle /\ RunIdle /\ InitNew /\ MetricsIdle
    /\ ToolIdle

SpecRegistry == InitSpecRegistry /\ [][NextRegistry]_vars

\* one call of retry_with_backoff(func, max_retries)
InitSpecRetry ==
    /\ \E m \in RetriesArgs : RetryEntry(m)
    /\ InitRegistry /\ DegradeIdle /\ FormatIdle /\ RunIdle /\ InitNew /\ MetricsIdle
    /\ ToolIdle

SpecRetry == InitSpecRetry /\ [][NextRetry]_vars

\* one call of execute_tools_with_degradation(tools, execute_func)
InitSpecDegrade ==
    /\ \E ts \in SeqsUpTo(DTools, MaxTools) : DegradeEntry(ts)
    /\ InitRegistry /\ RetryIdle /\ FormatIdle /\ RunIdle /\ InitNew /\ MetricsIdle
    /\ ToolIdle

SpecDegrade == InitSpecDegrade /\ [][NextDegrade]_vars

\* one call of OutputFormatter().format(findings, cost_analysis)
InitSpecFormat ==
    /\ \E fs \in SeqsUpTo(FindingInputs, MaxFindings) :
        \E ca \in CostInputs : FormatEntry(fs, ca)
    /\ InitRegistry /\ RetryIdle /\ DegradeIdle /\ RunIdle /\ InitNew /\ MetricsIdle
    /\ ToolIdle

SpecFormat == InitSpecFormat /\ [][NextFormat]_vars

\* one call of process_run_task, with the alarm armed or (no usable context)
\* not
InitSpecRun ==
    /\ \E t \in {"pre_plan", "post_plan"} : \E a \in {"armed", "none"} : RunEntry(t, a)
    /\ InitRegistry /\ RetryIdle /\ DegradeIdle /\ FormatIdle /\ InitNew /\ MetricsIdle
    /\ ToolIdle

SpecRun == InitSpecRun /\ [][NextRun]_vars

\* one call of the execute method of a validator, or one call of
\* execute_tools_with_degradation
InitSpecTools ==
    /\ \/ /\ \/ \E inp \in S3Inputs : ToolEntry("S3Validator", inp)
             \/ \E inp \in Ec2Inputs : ToolEntry("EC2Validator", inp)
             \/ \E inp \in SgInputs : ToolEntry("SecurityGroupValidator", inp)
             \/ \E inp \in CostInputsOfTool : ToolEntry("CostEstimator", inp)
          /\ DegradeIdle
       \/ /\ ToolIdle
          /\ \E ts \in SeqsUpTo(DTools, MaxTools) : DegradeEntry(ts)
    /\ InitRegistry /\ RetryIdle /\ FormatIdle /\ RunIdle /\ InitNew /\ MetricsIdle

SpecTools == InitSpecTools /\ [][NextTools]_vars

\* threads calling ToolRegistry() and ToolRegistry.reset()
InitSpecNew ==
    /\ InitNew
    /\ InitRegistry /\ RetryIdle /\ DegradeIdle /\ FormatIdle /\ RunIdle /\ MetricsIdle
    /\ ToolIdle

SpecNew == InitSpecNew /\ [][NextNew]_vars

\* calls of the methods of one MetricsEmitter
InitSpecMetrics ==
    /\ InitMetrics
    /\ InitRegistry /\ RetryIdle /\ DegradeIdle /\ FormatIdle /\ RunIdle /\ InitNew
    /\ ToolIdle

SpecMetrics == InitSpecMetrics /\ [][NextMetrics]_vars

(***************************************************************************)
(* Properties of the ToolRegistry                                          *)
(***************************************************************************)
\* positions of a thread that holds the registry lock
Critical ==
    {"reg_dup", "reg_desc", "reg_schema", "reg_store", "reg_exit",
     "get_read", "list_read", "spec_iter"}

InCritical == {t \in Threads : pc[t] \in Critical}

\* the candidate a register call has stored and not yet returned from
Pending ==
    IF \E t \in Threads : pc[t] = "reg_exit"
    THEN <<arg[CHOOSE t \in Threads : pc[t] = "reg_exit"]>>
    ELSE <<>>

\* a tool like the tests' MockTool: a BaseTool whose accessors return
ValidTool(c) == c.base /\ c.desc = "ok" /\ c.schema = "ok"

Count(seq, x) == Cardinality({i \in 1..Len(seq) : seq[i] = x})

NoDuplicateNames ==
    \A i, j \in 1..Len(tools) : tools[i].name = tools[j].name => i = j

RegisteredStays ==
    \A i \in 1..Len(okRegs) : Lookup(tools, okRegs[i].name) = <<okRegs[i]>>

GetReturnsRegistered ==
    \A t \in Threads :
        (pc[t] = "get_read" /\ pc'[t] = "idle") =>
            \A i \in 1..Len(okRegs) :
                okRegs[i].name = arg[t].name => ret'[t].tool = <<okRegs[i]>>

SecondRegisterFails ==
    \A t \in Threads :
        (/\ pc[t] = "reg_dup"
         /\ pc'[t] # "reg_dup"
         /\ \E i \in 1..Len(okRegs) : okRegs[i].name = arg[t].name) =>
            /\ pc'[t] = "idle"
            /\ ret'[t].status = "ValueError:already registered"
            /\ tools' = tools
            /\ ListTools(tools') = ListTools(tools)

\* C2: at most one tool is stored per name; a tool whose register succeeded is
\* what get_tool returns for its name from then on, and a later register with
\* the same name fails with an error and changes neither the entry nor the names.
C2_OneToolPerName ==
    /\ [](NoDuplicateNames /\ RegisteredStays)
    /\ [][GetReturnsRegistered /\ SecondRegisterFails]_vars

C2_Witness ==
    \E t, u \in Threads :
        /\ pc[t] = "idle" /\ arg[t] = MockA2
        /\ ret[t].status = "ValueError:already registered"
        /\ pc[u] = "idle" /\ ret[u].tool = <<MockA1>>
        /\ okRegs = <<MockA1>>

\* C7: threads that each call register once, with valid tools of pairwise
\* distinct names, all return without error, and every successfully registered
\* name is listed exactly once (no lost update).
C7_NoLostUpdate ==
    /\ \A i \in 1..Len(okRegs) : Count(ListTools(tools), okRegs[i].name) = 1
    /\ (/\ ops = Cardinality(Threads)
        /\ \A t \in Threads : pc[t] = "idle" /\ arg[t] \in Candidates /\ ValidTool(arg[t])
        /\ \A t, u \in Threads : arg[t].name = arg[u].name => t = u)
       => /\ \A t \in Threads : ret[t].status = "ok"
          /\ Len(tools) = Cardinality(Threads)
          /\ \A t \in Threads : Count(ListTools(tools), arg[t].name) = 1

C7_Witness ==
    /\ ops = Cardinality(Threads)
    /\ \A t \in Threads : pc[t] = "idle" /\ arg[t] \in Candidates /\ ValidTool(arg[t])
    /\ \A t, u \in Threads : arg[t].name = arg[u].name => t = u
    /\ Len(tools) = 3

\* C8: register and the three reads exclude each other on the registry lock: at
\* most one thread is inside a locked section; while a read or the checks of a
\* registration run, the map holds exactly the completed registrations; and
\* to_bedrock_spec builds its list from one unchanging map.
C8_MutualExclusion ==
    /\ Cardinality(InCritical) <= 1
    /\ \A t \in Threads :
        pc[t] \in {"reg_dup", "reg_desc", "reg_schema", "reg_store",
                   "get_read", "list_read", "spec_iter"} => tools = okRegs
    /\ \A t \in Threads :
        pc[t] = "spec_iter" =>
            /\ idx[t] - 1 <= Len(tools)
            /\ acc[t] = [i \in 1..(idx[t] - 1) |-> BedrockSpec(tools[i])]

C8_Witness ==
    \E t, u \in Threads :
        /\ pc[t] = "spec_iter" /\ idx[t] = 2
        /\ pc[u] = "reg_acquire"

\* C9: only candidates with a non-empty name, a description and an input schema
\* of type object with a properties map are ever stored.
C9_OnlyWellFormedStored ==
    \A i \in 1..Len(tools) :
        /\ tools[i].name # ""
        /\ tools[i].desc = "ok"
        /\ tools[i].schema = "ok"
        /\ tools[i].shape = "object"

\* C10: a register call that fails leaves the registered tools unchanged (the map
\* holds exactly the candidates of the calls that succeeded, in that order) and
\* releases the lock (the lock is held only by a thread inside a locked section).
C10_AllOrNothing ==
    /\ tools = okRegs \o Pending
    /\ locked <=> InCritical # {}
    /\ \A t \in Threads :
        (pc[t] = "idle" /\ ret[t].status \in Errors /\ ~HasName(okRegs, arg[t].name))
            => ~HasName(tools, arg[t].name)

C10_Witness ==
    /\ \E t \in Threads :
        pc[t] = "idle" /\ ret[t].status = "ValueError:missing required properties"
    /\ \E t \in Threads : pc[t] = "idle" /\ ret[t].status = "RuntimeError"
    /\ \E t \in Threads : pc[t] = "reg_exit" /\ arg[t] = MockB

(***************************************************************************)
(* Properties of retry_with_backoff                                        *)
(***************************************************************************)
At(e, n) == [e EXCEPT !.at = n]

\* every error func has raised so far is one is_retryable_error accepts
OnlyRetryableErrors ==
    \A i \in 1..Len(fhist) : fhist[i] # FuncOk => is_retryable_error(fhist[i])

\* C3: with max_retries = 3 and a func that raises retryable errors on its first
\* k calls and then succeeds, the call returns after exactly k+1 invocations when
\* k < 3, and raises the third error after exactly 3 invocations when k >= 3;
\* func is never invoked more than 3 times, and never again after it returned.
C3_ThreeAttempts ==
    max_retries = DefaultMaxRetries =>
        /\ Len(fhist) <= 3
        /\ \A i \in 1..(Len(fhist) - 1) : fhist[i] # FuncOk
        /\ (rpc = "done" /\ OnlyRetryableErrors) =>
            /\ Len(fhist) >= 1
            /\ IF fhist[Len(fhist)] = FuncOk
               THEN rout = ReturnedValue
               ELSE Len(fhist) = 3 /\ rout = RaisedError(fhist[3])

C3_Witness ==
    /\ max_retries = DefaultMaxRetries
    /\ rpc = "done"
    /\ fhist = <<At(Throttled, 1), At(ConnectionReset, 2), FuncOk>>
    /\ rout = ReturnedValue

\* C4: an error of func that the retryable check rejects is raised to the caller
\* as it is, func is not invoked again and no sleep follows it.
C4_NonRetryablePropagates ==
    \A i \in 1..Len(fhist) :
        (fhist[i] # FuncOk /\ ~is_retryable_error(fhist[i])) =>
            /\ i = Len(fhist)
            /\ Len(slept) = i - 1
            /\ rpc \in {"except", "done"}
            /\ rpc = "done" => rout = RaisedError(fhist[i])

C4_Witness ==
    /\ rpc = "done"
    /\ fhist = <<At(Throttled, 1), At(BadPlan, 2)>>
    /\ rout = RaisedError(At(BadPlan, 2))
    /\ slept = <<1>>

\* list_tools returns the names of the tools registered so far, in the order
\* in which their registrations succeeded
ListReturnsRegistered ==
    \A t \in Threads :
        (pc[t] = "list_read" /\ pc'[t] = "idle") =>
            ret'[t].names = [i \in 1..Len(okRegs) |-> okRegs[i].name]

\* to_bedrock_spec returns one specification for each of them, in that order
SpecReturnsRegistered ==
    \A t \in Threads :
        (pc[t] = "spec_iter" /\ pc'[t] = "idle") =>
            ret'[t].specs =
                [i \in 1..Len(okRegs) |->
                    [name |-> okRegs[i].name, description |-> okRegs[i].desc,
                     inputSchema |-> okRegs[i].shape]]

\* C12: after any sequence of register calls, successful or failed,
\* list_tools returns exactly the names of the successfully registered tools
\* in the order their registrations succeeded, and to_bedrock_spec returns
\* exactly one specification per registered tool in the same order, with
\* nothing for a tool whose registration failed.
C12_ListingsReflectRegistry == [][ListReturnsRegistered /\ SpecReturnsRegistered]_vars

\* "b" was registered before "a", and list_tools returned them in that order
C12_Witness ==
    \E t \in Threads :
        /\ pc[t] = "idle"
        /\ ret[t].names = <<"b", "a">>
        /\ okRegs \in {<<MockB, MockA1>>, <<MockB, MockA2>>}

\* func raised a retryable error on every attempt of a default call, and the
\* call has ended
KeptRaisingRetryable ==
    /\ max_retries = DefaultMaxRetries
    /\ rpc = "done"
    /\ Len(fhist) = DefaultMaxRetries
    /\ \A i \in 1..Len(fhist) : fhist[i] # FuncOk
    /\ OnlyRetryableErrors

C14_ValidationNeverRetried ==
    \A i \in 1..Len(fhist) :
        fhist[i].cls \in ValidationClasses =>
            /\ ~is_retryable_error(fhist[i])
            /\ i = Len(fhist)
            /\ Len(slept) < i

\* C30: whatever max_retries is (0 and negative values included), a finished
\* retry_with_backoff has invoked func at least once, and an exception it
\* raised to its caller is the one func raised on its last invocation.
C30_InvokedAtLeastOnce ==
    rpc = "done" =>
        /\ Len(fhist) >= 1
        /\ rout.kind = "raised" => rout.err = fhist[Len(fhist)]

(***************************************************************************)
(* Properties of execute_tools_with_degradation (under SpecDegrade)        *)
(***************************************************************************)
\* execute_func raised an Exception for the k-th tool
ToolFailed(k) == dhist[k] # FuncOk /\ dhist[k].cls \in ExceptionClasses

\* one outcome for each tool looked at so far, in the order of tools
OneOutcomePerTool ==
    /\ Len(dresults) = Len(dhist)
    /\ \A k \in 1..Len(dresults) : dresults[k].src = k
    /\ dpc \in {"loop", "exec", "summary", "done"} => Len(dresults) = di - 1
    /\ dpc \in {"summary", "done"} => Len(dresults) = Len(dtools)

\* the outcome of a tool that raised
FailureRecorded ==
    \A k \in 1..Len(dresults) :
        ToolFailed(k) =>
            /\ dresults[k].tool_name = ToolName(dtools[k])
            /\ dresults[k].success = FALSE
            /\ dresults[k].error = dhist[k].msg
            /\ dresults[k].error_type = dhist[k].cls
            /\ dresults[k].findings = <<>>

\* C1: execute_tools_with_degradation never raises for a tool whose execution
\* raises an Exception: it returns exactly one outcome per tool, in the order
\* the tools were given; a tool that raised contributes an outcome with
\* success = False, the error text, the error class name and no findings, and
\* the tools after it are still executed.  Only an exception that is no
\* Exception (KeyboardInterrupt) leaves the function.
C1_GracefulDegradation ==
    /\ dpc = "raised" => dexc # NoError /\ dexc.cls \notin ExceptionClasses
    /\ dpc # "raised" =>
        /\ dexc = NoError
        /\ OneOutcomePerTool
        /\ FailureRecorded

\* the first and the last of three tools raise, the one between them returns,
\* and the call returns three outcomes
C1_Witness ==
    /\ dpc = "done"
    /\ dtools = <<Ec2Tool, Nameless, S3Tool>>
    /\ dhist = <<Throttled, FuncOk, BadPlan>>
    /\ Len(dresults) = 3
    /\ dresults[3].error_type = "ValueError"

\* C15: for every tool that execute_tools_with_degradation executes, exactly
\* one emit_tool_execution call (duration plus outcome) reaches the
\* MetricsEmitter, whether the execution succeeded or failed: after a run over
\* n tools there are n such calls, one per tool, in order.
C15_MetricPerTool ==
    dpc = "done" =>
        /\ Len(emitted) = Len(dtools)
        /\ \A k \in 1..Len(emitted) :
            /\ emitted[k].tool_name = ToolName(dtools[k])
            /\ emitted[k].success = dresults[k].success

(***************************************************************************)
(* Properties of OutputFormatter.format (under SpecFormat)                 *)
(***************************************************************************)
HasPart(kind) == \E k \in 1..Len(output) : output[k].kind = kind

\* C5: the string returned by OutputFormatter.format is at most 9000
\* characters long, for every findings list and cost_analysis, the truncation
\* notice, the "Priority Findings" heading and the omitted-findings footer
\* included.
C5_LengthLimit == fpc = "done" => StrLen(output) <= MAX_SECTION_LENGTH

\* an output over the limit was rebuilt with a finding, the heading and the
\* footer
C5_Witness ==
    /\ fpc = "done"
    /\ HasPart("trunc_notice")
    /\ HasPart("priority_head")
    /\ HasPart("finding")
    /\ HasPart("footer")

\* the truncation pass of _apply_length_limit produced the output
Truncated == fpc = "done" /\ HasPart("trunc_notice")

\* the positions of the pieces of one kind in the output
PartsOf(kind) == {k \in 1..Len(output) : output[k].kind = kind}

\* number of findings the truncated output shows
IncludedCount == Cardinality(PartsOf("finding"))

\* C18: when the truncation pass has run and left findings out, the output
\* ends with one "findings omitted" footer whose count is the number of
\* findings passed to format minus the number of findings included; when the
\* pass left nothing out (every finding is included, or there was none) there
\* is no footer.  An output that was not truncated has no footer.
C18_FooterCount ==
    /\ Truncated =>
        IF Len(findings) - IncludedCount > 0
        THEN /\ PartsOf("footer") = {Len(output)}
             /\ output[Len(output)].n = Len(findings) - IncludedCount
        ELSE PartsOf("footer") = {}
    /\ (fpc = "done" /\ ~HasPart("trunc_notice")) => PartsOf("footer") = {}

\* two findings went in, one was included and the footer counts the other
C18_Witness ==
    /\ Truncated
    /\ Len(findings) = 2
    /\ IncludedCount = 1
    /\ output[Len(output)].kind = "footer"
    /\ output[Len(output)].n = 1

\* C18 as stated: every truncated output has the footer
C18_FooterAlways ==
    Truncated =>
        /\ HasPart("footer")
        /\ \A k \in PartsOf("footer") : output[k].n = Len(findings) - IncludedCount

\* the numbered items of the Recommendations section, in output order
RecItems == SelectSeq(output, LAMBDA p : p.kind = "rec_item")

\* C19: the Recommendations section numbers 1..5 the first five of the
\* CRITICAL/HIGH findings sorted by severity (CRITICAL before HIGH), each item
\* giving the remediation of the finding at that place of the sorted list; with
\* no CRITICAL/HIGH finding it has the one reassurance line and no item.
C19_RecommendationsSorted ==
    (fpc = "done" /\ HasPart("rec_head")) =>
        LET sorted == FirstN(SortedBySeverity(findings, CriticalHigh(findings)), TopN)
        IN IF sorted = <<>>
           THEN /\ RecItems = <<>>
                /\ Cardinality(PartsOf("no_action")) = 1
           ELSE /\ ~HasPart("no_action")
                /\ Len(RecItems) = Len(sorted)
                /\ \A k \in 1..Len(sorted) :
                    /\ RecItems[k].n = k
                    /\ findings[RecItems[k].f].severity = findings[sorted[k]].severity
                    /\ findings[RecItems[k].f].remediation
                           = findings[sorted[k]].remediation

\* the headings of the Security, Cost, Operational and Recommendations sections
SectionHeads == {"security_head", "cost_head", "ops_head", "rec_head"}

\* C20: the output of format has the "All Clear" heading and message exactly
\* when the findings list is empty and cost_analysis is None or an empty dict;
\* it then has none of the four section headings, and in every other case the
\* "All Clear" heading and message are both absent.
C20_AllClear ==
    fpc = "done" =>
        IF findings = <<>> /\ cost_analysis.is \in {"None", "{}"}
        THEN /\ Cardinality(PartsOf("all_clear_head")) = 1
             /\ Cardinality(PartsOf("all_clear_text")) = 1
             /\ \A kind \in SectionHeads : ~HasPart(kind)
        ELSE /\ ~HasPart("all_clear_head")
             /\ ~HasPart("all_clear_text")

\* format returned the "All Clear" output for no findings and an empty dict
C20_Witness ==
    /\ fpc = "done"
    /\ findings = <<>>
    /\ cost_analysis.is = "{}"
    /\ HasPart("all_clear_head")
    /\ HasPart("all_clear_text")

\* the findings the truncated output shows, in output order
Included == SelectSeq(output, LAMBDA p : p.kind = "finding")

\* finding i comes before finding j in the stable sort by severity
Before(i, j) ==
    \/ _severity_order(findings[i].severity) < _severity_order(findings[j].severity)
    \/ /\ findings[i].severity = findings[j].severity
       /\ i < j

\* the positions of the CRITICAL and HIGH findings
CriticalHighSet == {i \in 1..Len(findings) : findings[i].severity \in {"CRITICAL", "HIGH"}}

\* C29: in a truncated output the included findings are CRITICAL/HIGH ones
\* only, each rendered whole, in stable severity order; they are a prefix of
\* that order (every left-out CRITICAL/HIGH finding comes after all included
\* ones); header, notice and included findings together stay within 8800
\* characters, and the first left-out finding of the order, if any, would have
\* gone beyond 8800.
C29_LongestPrefix ==
    Truncated =>
        LET incSet == {Included[k].f : k \in 1..Len(Included)}
            rest == CriticalHighSet \ incSet
            running == HeaderLen + TruncNoticeLen + StrLen(Included)
        IN /\ \A k \in 1..Len(Included) :
                /\ Included[k].f \in CriticalHighSet
                /\ Included[k] = _format_single_finding(findings, Included[k].f)
           /\ \A k, l \in 1..Len(Included) :
                k < l => Before(Included[k].f, Included[l].f)
           /\ \A i \in incSet, j \in rest : Before(i, j)
           /\ running <= MAX_SECTION_LENGTH - FooterMargin
           /\ \A j \in rest :
                (\A o \in rest \ {j} : Before(j, o)) =>
                    running + _format_single_finding(findings, j).len
                        > MAX_SECTION_LENGTH - FooterMargin

\* a CRITICAL finding that does not fit stops the pass: the short HIGH finding
\* given before it, which alone would fit, is left out as well
C29_Witness ==
    /\ Truncated
    /\ Len(findings) = 2
    /\ findings[1].severity = "HIGH"
    /\ findings[2].severity = "CRITICAL"
    /\ HeaderLen + TruncNoticeLen + _format_single_finding(findings, 1).len
           <= MAX_SECTION_LENGTH - FooterMargin
    /\ Included = <<>>
    /\ output[Len(output)].kind = "footer"
    /\ output[Len(output)].n = 2

(***************************************************************************)
(* Properties of process_run_task (under SpecRun)                          *)
(***************************************************************************)
\* process_run_task returned after its except TimeoutException clause ran
ReturnedAfterTimeout == ppc = "done" /\ caught.cls = "TimeoutException"

\* C6: when the timeout fires in the middle of a post-plan run after some
\* result segments were produced, process_run_task returns those segments,
\* tagged partial, and does not discard them; the timeout placeholder is the
\* result only when nothing had been collected.
C6_PartialResultsReturned ==
    ReturnedAfterTimeout =>
        /\ partial_results /\ message = TimedOutMessage
        /\ lost # <<>> => results = lost
        /\ results = TimeoutWarning => lost = <<>>

\* C27: once the timeout signal has raised TimeoutException during the
\* post-plan analysis, an attempt of retry_with_backoff included, no further
\* attempt is started, the exception reaches the timeout branch, and
\* process_run_task returns status "passed" with the partial-results flag set
\* and a non-empty results list.
C27_TimeoutStopsAnalysis ==
    /\ \A i \in 1..Len(fhist) :
        fhist[i].cls = "TimeoutException" =>
            /\ i = Len(fhist)
            /\ Len(slept) < i
    /\ (alarm = "fired" /\ rtype = "post_plan" /\ pexc = NoError /\ ppc = "done") =>
        /\ caught = TimeoutException
        /\ status = "passed"
        /\ partial_results
        /\ results # <<>>

\* the post-plan analysis raised e into process_run_task, and e is not the
\* TimeoutException of the alarm
AnalysisRaised(e) == e # NoError /\ e.cls # "TimeoutException"

WholeCalls == {c \in completed : c.began = c.ended}

\* the calls that returned hand out one object between two resets
OneInstancePerEpoch ==
    \A c, d \in WholeCalls :
        c.kind = "returned" /\ d.kind = "returned" /\ c.began = d.began => c.obj = d.obj

\* C11: between two calls of ToolRegistry.reset every call of ToolRegistry(),
\* concurrent calls of several threads included, returns the same single
\* instance.
C11_SingleInstance ==
    /\ \A c \in WholeCalls : c.kind = "returned" /\ c.obj # 0
    /\ OneInstancePerEpoch

\* C28: the body of __init__ takes effect at most once on each instance, and
\* a tool whose registration on the singleton has returned stays in its tool
\* map for as long as that instance is the singleton.
C28_InitOnce ==
    /\ \A o \in 1..Len(objects) : objects[o].inits <= 1
    /\ _instance # 0 => objects[_instance].registered \subseteq objects[_instance]._tools

(***************************************************************************)
(* Properties of MetricsEmitter (under SpecMetrics)                        *)
(***************************************************************************)
\* C17: emit_duration, emit_count and emit_tool_execution never raise an
\* Exception to their caller, whatever the state of the sink: without a
\* CloudWatch client nothing is sent, an Exception raised by put_metric_data
\* is swallowed, and the call returns.  Only an exception that is no
\* Exception (KeyboardInterrupt) leaves the method.
C17_MetricsNeverRaise ==
    /\ mesc # NoError => mesc.cls \notin ExceptionClasses
    /\ mpc = "raised" <=> mesc # NoError
    /\ ~cloudwatch => put_log = <<>> /\ mhist = <<>>
    /\ (mpc = "idle" /\ mesc = NoError) => mreturned = mstarted
    /\ Len(put_log) = Cardinality({k \in 1..Len(mhist) : mhist[k] = FuncOk})

\* put_metric_data raised a ClientError and another Exception, and both calls
\* returned
C17_Witness ==
    /\ cloudwatch
    /\ mpc = "idle"
    /\ mhist = <<Throttled, ConnectionReset>>
    /\ mreturned = 2
    /\ put_log = <<>>




(***************************************************************************)
(* Properties of the validators (under SpecTools)                          *)
(***************************************************************************)
\* execute has returned its ToolOutput
Executed(v) == tpc = "done" /\ validator = v

\* C21: an outcome with success = false has no findings and has its error
\* set: the ToolOutput each of the four validators returns, for a malformed
\* input as for an exception raised inside, and the error outcome that
\* execute_tools_with_degradation records for a tool that raised, whose error
\* is the text of that exception.
C21_FailureHasError ==
    /\ (tpc = "done" /\ ~tool_output.success) =>
        /\ tool_output.findings = <<>>
        /\ tool_output.error # "None"
    /\ \A k \in 1..Len(dresults) :
        ~dresults[k].success =>
            /\ dresults[k].findings = <<>>
            /\ IF dresults[k].error_type = ""
               THEN dresults[k].error # <<>>
               ELSE /\ dresults[k].error = dhist[dresults[k].src].msg
                    /\ dresults[k].error_type = dhist[dresults[k].src].cls

\* the storage validator failed on an exception raised by one of its checks
C21_Witness ==
    /\ Executed("S3Validator")
    /\ input_data.valid
    /\ ~tool_output.success
    /\ tool_output.error = "S3 validation error: AttributeError"


\* the finding for the sensitive port p, if the rule's range holds it
PortFinding(rule, p, service_name, sev) ==
    IF rule.from_port[1] <= p /\ p <= rule.to_port[1]
    THEN <<VFinding(sev, "exposes", <<service_name>>, p)>>
    ELSE <<>>

\* what one ingress rule has to yield
RuleFindings(rule) ==
    IF "0.0.0.0/0" \notin rule.cidr_blocks.d THEN <<>>
    ELSE IF rule.protocol = "-1" \/ rule.from_port = <<>> \/ rule.to_port = <<>>
    THEN <<VFinding("CRITICAL", "allows all traffic from anywhere", <<>>, 0)>>
    ELSE PortFinding(rule, 22, "SSH", "CRITICAL")
         \o PortFinding(rule, 3389, "RDP", "CRITICAL")
         \o PortFinding(rule, 3306, "MySQL", "HIGH")
         \o PortFinding(rule, 5432, "PostgreSQL", "HIGH")

RECURSIVE AllRuleFindings(_)
AllRuleFindings(rules) ==
    IF rules = <<>> THEN <<>> ELSE RuleFindings(Head(rules)) \o AllRuleFindings(Tail(rules))

\* every rule of the input carries a list of CIDR blocks
WellFormedRules ==
    /\ input_data.valid
    /\ \A k \in 1..Len(input_data.ingress_rules) :
        input_data.ingress_rules[k].cidr_blocks.is = "list"

\* C22: the network validator's findings are the findings of its ingress
\* rules, joined in rule order, and egress rules add nothing.  A rule without
\* 0.0.0.0/0 yields nothing; an open rule with protocol "-1" or without
\* from_port or to_port yields the one CRITICAL all-traffic finding and no
\* port finding; any other open rule yields one finding for each of the ports
\* 22, 3389 (CRITICAL), 3306, 5432 (HIGH) inside from_port..to_port, both ends
\* included, and nothing else.
C22_IngressFindings ==
    (Executed("SecurityGroupValidator") /\ WellFormedRules) =>
        /\ tool_output.success
        /\ tool_output.findings = AllRuleFindings(input_data.ingress_rules)

\* two open rules: port 22 alone, then the range 3306..5432
C22_Witness ==
    /\ Executed("SecurityGroupValidator")
    /\ WellFormedRules
    /\ Len(input_data.ingress_rules) = 2
    /\ Len(tool_output.findings) = 4
    /\ tool_output.findings[1].port = 22
    /\ tool_output.findings[4].port = 5432


\* the public-access findings of the returned list
PublicAccessTitles ==
    {"has no public access block configuration", "has public access block settings disabled"}

PublicAccessFindings ==
    SelectSeq(tool_output.findings, LAMBDA f : f.title \in PublicAccessTitles)

\* the labels of the flags that are false in, or absent from, the access block
DisabledLabels ==
    {required_settings[k].label : k \in
        {j \in 1..4 : \/ required_settings[j].key \notin DOMAIN input_data.public_access_block.d
                      \/ ~input_data.public_access_block.d[required_settings[j].key]}}

EncryptionFindings ==
    SelectSeq(tool_output.findings, LAMBDA f : f.title \notin PublicAccessTitles)

\* the encryption spec is there, with its algorithm empty, missing or null
AlgorithmMissing ==
    /\ input_data.encryption.is = "dict"
    /\ \/ "sse_algorithm" \notin DOMAIN input_data.encryption.d
       \/ input_data.encryption.d["sse_algorithm"] \in {<<>>, NullValue}

\* C24: for every bucket input the public-access finding is there exactly when
\* the access block is None or has a disabled flag, whatever the encryption
\* input is; the encryption finding depends on the encryption input alone, an
\* encryption spec with an empty, missing or null algorithm giving the HIGH
\* "invalid encryption configuration" finding; and the returned list is the
\* public-access finding followed by the encryption finding, two at most.
C24_IndependentChecks ==
    (Executed("S3Validator") /\ input_data.valid) =>
        /\ Len(PublicAccessFindings) = 1
             <=> (input_data.public_access_block.is = "None" \/ DisabledLabels # {})
        /\ AlgorithmMissing =>
            /\ Len(EncryptionFindings) = 1
            /\ EncryptionFindings[1].severity = "HIGH"
            /\ EncryptionFindings[1].title = "has invalid encryption configuration"
        /\ tool_output.findings = PublicAccessFindings \o EncryptionFindings
        /\ Len(tool_output.findings) <= 2


\* the findings of the instance-type check in the returned list
InstanceTypeTitles ==
    {"not available in", "Invalid instance type", "Unable to validate instance type"}

InstanceFindings ==
    SelectSeq(tool_output.findings, LAMBDA f : f.title \in InstanceTypeTitles)

\* the family the static map upgrades a family to; "t3" for one it does not hold
UpgradedFamily(family) ==
    CASE family = "t2" -> "t3" [] family = "t3" -> "t3a"
      [] family = "m4" -> "m5" [] family = "m5" -> "m6i"
      [] family = "c4" -> "c5" [] family = "c5" -> "c6i"
      [] family = "r4" -> "r5" [] family = "r5" -> "r6i"
      [] OTHER -> "t3"

\* the remediation names the upgraded family with the size of the given type
SuggestsUpgrade(f) ==
    /\ Len(input_data.instance_type) = 2
    /\ f.items = <<"Consider using", UpgradedFamily(input_data.instance_type[1]),
                   input_data.instance_type[2]>>

OperationalErrors == {"ClientError:UnauthorizedOperation", "ClientError:RequestLimitExceeded"}

\* C25: the instance-type check of the compute validator has five outcomes.
\* The type is available: no finding.  The lookup returns no type for the
\* region: one HIGH finding whose remediation suggests the family-upgraded
\* alternative with the size kept (an unknown family giving t3), or the valid
\* format when the type is not family.size.  The lookup raises ClientError
\* InvalidInstanceType: one CRITICAL finding whose remediation names no
\* alternative type.  It raises another ClientError: one MEDIUM finding, and
\* execute reports success.  It raises an error that is no ClientError:
\* execute reports failure.
C25_InstanceTypeOutcomes ==
    (Executed("EC2Validator") /\ input_data.valid) =>
        CASE input_data.describe = "InstanceTypes" ->
                tool_output.success /\ InstanceFindings = <<>>
          [] input_data.describe = "empty" ->
                /\ tool_output.success
                /\ Len(InstanceFindings) = 1
                /\ InstanceFindings[1].severity = "HIGH"
                /\ IF Len(input_data.instance_type) = 2
                   THEN SuggestsUpgrade(InstanceFindings[1])
                   ELSE InstanceFindings[1].items = <<"Use a valid instance type format">>
          [] input_data.describe = "ClientError:InvalidInstanceType" ->
                /\ tool_output.success
                /\ Len(InstanceFindings) = 1
                /\ InstanceFindings[1].severity = "CRITICAL"
                /\ ~SuggestsUpgrade(InstanceFindings[1])
          [] input_data.describe \in OperationalErrors ->
                /\ tool_output.success
                /\ Len(InstanceFindings) = 1
                /\ InstanceFindings[1].severity = "MEDIUM"
          [] OTHER ->
                ~tool_output.success /\ tool_output.findings = <<>>

\* m4.large is unknown to the provider: CRITICAL, and no m5.large in the
\* remediation
C25_Witness ==
    /\ Executed("EC2Validator")
    /\ input_data.valid
    /\ input_data.instance_type = <<"m4", "large">>
    /\ input_data.describe = "ClientError:InvalidInstanceType"
    /\ Len(tool_output.findings) = 1
    /\ tool_output.findings[1].severity = "CRITICAL"
    /\ tool_output.findings[1].items # <<"Consider using", "m5", "large">>

\* C25 as stated: three outcomes, the not-found one being CRITICAL with the
\* family-upgraded alternative as its remediation
C25_ThreeOutcomes ==
    (Executed("EC2Validator") /\ input_data.valid) =>
        /\ input_data.describe = "InstanceTypes" => InstanceFindings = <<>>
        /\ (/\ input_data.describe = "ClientError:InvalidInstanceType"
            /\ Len(input_data.instance_type) = 2) =>
                /\ Len(InstanceFindings) = 1
                /\ InstanceFindings[1].severity = "CRITICAL"
                /\ SuggestsUpgrade(InstanceFindings[1])
        /\ input_data.describe \in OperationalErrors =>
                /\ tool_output.success
                /\ Len(InstanceFindings) = 1
                /\ InstanceFindings[1].severity = "MEDIUM"


\* the monthly costs the comparison is given
OldCost ==
    _get_instance_cost(input_data.old_instance_type[1], input_data.api_old,
                       input_data.hours_per_month)

NewCost ==
    _get_instance_cost(input_data.instance_type, input_data.api_new,
                       input_data.hours_per_month)

Compared ==
    /\ Executed("CostEstimator")
    /\ input_data.valid
    /\ input_data.old_instance_type # <<>>

\* C26: a cost comparison of old monthly cost o and new monthly cost n gives
\* exactly one finding.  With p = (n - o) / o x 100 (p = 100 when o is zero
\* and n > 0, p = 0 when o is zero and n is not > 0): p > 20 gives HIGH,
\* 0 < p <= 20 gives LOW titled as an increase, p < 0 gives LOW titled as
\* savings, p = 0 gives LOW titled as no change.
C26_CostSeverity ==
    Compared =>
        LET o == OldCost
            n == NewCost
            f == tool_output.findings[1]
            high == IF o > 0 THEN (n - o) * 100 > 20 * o ELSE n > 0
            up   == o > 0 /\ n > o /\ (n - o) * 100 <= 20 * o
            down == o > 0 /\ n < o
        IN /\ tool_output.success
           /\ Len(tool_output.findings) = 1
           /\ high => f.severity = "HIGH"
           /\ up => f.severity = "LOW" /\ f.title = "Cost increase"
           /\ down => f.severity = "LOW" /\ f.title = "Cost savings"
           /\ (~high /\ ~up /\ ~down) =>
                  f.severity = "LOW" /\ f.title = "No cost change"

\* a rise of exactly 20 percent (hourly rate 0.0100 to 0.0120) is LOW
C26_Witness ==
    /\ Compared
    /\ OldCost > 0
    /\ (NewCost - OldCost) * 100 = 20 * OldCost
    /\ tool_output.findings = <<VFinding("LOW", "Cost increase", <<>>, 0)>>

====
